---- MODULE Spec2Model ----
(***************************************************************************)
(* The performance toolkit of Study-04/backend: the caches of              *)
(* cache_manager.py, the rate limiters of rate_limiter.py, the             *)
(* SessionManager of auth_optimized.py and the ConnectionPool of           *)
(* database_optimized.py.                                                  *)
(*                                                                         *)
(* Every public method of the caches, the limiters and the SessionManager  *)
(* runs its whole body under the instance's own lock (with self._lock:),   *)
(* so a method call is one atomic step and concurrent callers are the      *)
(* interleavings of these steps.  The ConnectionPool locks only a part of  *)
(* get_connection, so its methods are modelled step by step.               *)
(* time.time() is the variable now, in whole seconds, and never goes back. *)
(* Strings are sequences of one-character strings, so that truthiness      *)
(* (if key:), containment (pattern in key) and ":".join are computed.      *)
(***************************************************************************)
EXTENDS Integers, Sequences, FiniteSets, TLC

VARIABLES now,
          kind, lru, ttlc, recency, setAt, ret,
          sw, swret,
          tb, tbret, markT, granted,
          caches, used, memo, ttlAt, mret,
          ad, adret,
          mt, mtret, admitted,
          api, ch,
          sm, smret, smh,
          cp, th, ph,
          lk

cacheVars == <<kind, lru, ttlc, recency, setAt, ret>>
swVars == <<sw, swret>>
tbVars == <<tb, tbret, markT, granted>>
mgrVars == <<caches, used, memo, ttlAt, mret>>
adVars == <<ad, adret>>
mtVars == <<mt, mtret, admitted>>
chVars == <<api, ch>>
smVars == <<sm, smret, smh>>
cpVars == <<cp, th, ph>>
lkVars == <<lk>>

vars == <<now, cacheVars, swVars, tbVars, mgrVars, adVars, mtVars, chVars, smVars, cpVars, lkVars>>

\* What the steps of one component leave alone.
notCache == <<swVars, tbVars, mgrVars, adVars, mtVars, chVars, smVars, cpVars, lkVars>>
notSw == <<cacheVars, tbVars, mgrVars, adVars, mtVars, chVars, smVars, cpVars, lkVars>>
notTb == <<cacheVars, swVars, mgrVars, adVars, mtVars, chVars, smVars, cpVars, lkVars>>
notMgr == <<cacheVars, swVars, tbVars, adVars, mtVars, chVars, smVars, cpVars, lkVars>>
notAd == <<cacheVars, swVars, tbVars, mgrVars, mtVars, chVars, smVars, cpVars, lkVars>>
notMt == <<cacheVars, swVars, tbVars, mgrVars, adVars, chVars, smVars, cpVars, lkVars>>
\* check_rate_limit works on the three global limiters.
notCh == <<cacheVars, swVars, tbVars, mgrVars, adret, mtret, admitted, smVars, cpVars, lkVars>>
notSm == <<cacheVars, swVars, tbVars, mgrVars, adVars, mtVars, chVars, cpVars, lkVars>>
notCp == <<now, cacheVars, swVars, tbVars, mgrVars, adVars, mtVars, chVars, smVars, lkVars>>
notLk == <<now, cacheVars, swVars, tbVars, mgrVars, adVars, mtVars, chVars, smVars, cpVars>>

\* ------------------------------------------------------------------ bounds
MaxTime == 3
MaxSize == 2
MaxTtl == 2
MaxRequests == 3
MaxWindow == 2
MaxWindowTime == 4
MaxCapacity == 2
MaxRate == 2
MaxBucketTime == 10
MaxManagerTime == 2
\* refill_rate is a float: rates are multiples of 1/TokenScale and tokens are
\* counted in units of 1/TokenScale, so the arithmetic is exact.
TokenScale == 2
\* TokenBucketRateLimiter(capacity=10, ...), the bucket of /api/generate.
GenerateCapacity == 10

\* AdaptiveRateLimiter: the base rates tried besides the default one, the
\* windows, the number of responses recorded, the number of timestamps the
\* limiter is made to hold, and the time.
MaxBaseRate == 2
MaxAdaptiveWindow == 1
MaxResponses == 2
MaxAdaptiveRequests == 2
MaxAdaptiveTime == 1
MaxAdmits == 3
\* response_time is a float: response times are multiples of
\* 1/LatencyScale seconds.
LatencyScale == 4
\* AdaptiveRateLimiter(base_rate=10, window_seconds=60)
DefaultBaseRate == 10
DefaultWindowSeconds == 60
\* deque(maxlen=100)
ResponseTimesMaxlen == 100

\* MultiTierRateLimiter: the budgets of self.tiers, scaled down from 10/100
\* (free), 30/500 (basic) and 100/2000 (premium) so that a window fills
\* within a few calls, and the number of timestamps a window of the
\* unlimited tier is made to hold.
FreePerMinute == 1
FreePerHour == 2
BasicPerMinute == 2
BasicPerHour == 3
PremiumPerMinute == 3
PremiumPerHour == 4
MaxTierRequests == 3
\* float('inf')
Infinity == 1000000
\* SlidingWindowRateLimiter(limits['requests_per_minute'], 60) and
\* SlidingWindowRateLimiter(limits['requests_per_hour'], 3600)
MinuteSeconds == 60
HourSeconds == 3600

\* APIEndpointRateLimiter: TokenBucketRateLimiter(capacity=20, ...) of
\* /api/recognize, (capacity=50, ...) of /api/search, and
\* SlidingWindowRateLimiter(100, 60) of an IP address.
RecognizeCapacity == 20
SearchCapacity == 50
IpMaxRequests == 100
IpWindowSeconds == 60
\* The number of check_rate_limit calls made.
MaxChecks == 11

\* SessionManager: max_sessions, session_ttl, the number of tokens issued,
\* the additional_seconds of extend_session, the time, and the number of
\* calls made.
MaxSessions == 2
MaxSessionTtl == 2
MaxTokens == 3
MaxAdditionalSeconds == 1
MaxSessionTime == 3
MaxSessionCalls == 5

\* ConnectionPool: max_connections, the number of get_connection calls begun
\* and the number of close_all calls begun.
MaxPoolSize == 5
MaxPoolCalls == 4
MaxCloses == 2
\* for _ in range(min(3, max_connections))
Precreated == 3

\* ------------------------------------------------------------ Python values
\* None as a return value or a stored value.
NoneV == "None"
\* None as an Optional[str] argument: no string holds the atom "None".
NoneKey == <<"None">>
\* None as an Optional[int] argument.
NoneInt == -1

Vals == {NoneV, "x"}
Keys == {<<>>, <<"a">>, <<"a", "b">>}
OptKeys == Keys \cup {NoneKey}
\* The keys given to a TTLCache.
TtlKeys == {<<"a">>, <<"a", "b">>}

\* bool(key) of an Optional[str]: None and "" are falsy.
Truthy(key) == key # NoneKey /\ Len(key) > 0

\* pattern in key, for two strings.
IsSubstr(p, s) ==
    \E i \in 0..(Len(s) - Len(p)) : SubSeq(s, i + 1, i + Len(p)) = p

\* ------------------------------------------------------------- OrderedDict
\* An OrderedDict is the sequence of its items [k, v], oldest first.
OdKeys(d) == {d[i].k : i \in 1..Len(d)}
OdHas(d, key) == key \in OdKeys(d)
OdGet(d, key) == (CHOOSE i \in 1..Len(d) : d[i].k = key)
OdDel(d, key) == SelectSeq(d, LAMBDA e : e.k # key)
\* d[key] = value: a new key goes to the end, an old key keeps its place.
OdPut(d, key, value) ==
    IF OdHas(d, key)
    THEN [i \in 1..Len(d) |-> IF d[i].k = key THEN [k |-> key, v |-> value] ELSE d[i]]
    ELSE Append(d, [k |-> key, v |-> value])
OdMoveToEnd(d, key) == Append(OdDel(d, key), d[OdGet(d, key)])

\* A dict restricted to the keys other than key.
DictDel(f, key) == [k \in (DOMAIN f) \ {key} |-> f[k]]
DictPut(f, key, value) == [k \in (DOMAIN f) \cup {key} |-> IF k = key THEN value ELSE f[k]]
EmptyDict == [k \in {} |-> 0]

\* ---------------------------------------------------------------- LRUCache
\* hits and misses are statistics no operation reads; they are left out.
LRUCache(max_size, ttl) ==
    [cls |-> "LRUCache", max_size |-> max_size, ttl |-> ttl,
     cache |-> <<>>, timestamps |-> EmptyDict]

\* A get without the TTL check.
LRU_get_NoTtl(self, key, t) ==
    IF ~OdHas(self.cache, key)
    THEN [self |-> self, value |-> NoneV]
    ELSE LET moved == OdMoveToEnd(self.cache, key)
         IN [self |-> [self EXCEPT !.cache = moved],
             value |-> moved[Len(moved)].v]

\* A get that does not refresh the entry's recency.
LRU_get_NoMove(self, key, t) ==
    IF ~OdHas(self.cache, key)
    THEN [self |-> self, value |-> NoneV]
    ELSE IF self.ttl > 0 /\ t - self.timestamps[key] > self.ttl
    THEN [self |-> [self EXCEPT !.cache = OdDel(self.cache, key),
                                !.timestamps = DictDel(self.timestamps, key)],
          value |-> NoneV]
    ELSE [self |-> self, value |-> self.cache[OdGet(self.cache, key)].v]

LRU_get(self, key, t) ==
    IF ~OdHas(self.cache, key)
    THEN [self |-> self, value |-> NoneV]
    ELSE IF self.ttl > 0 /\ t - self.timestamps[key] > self.ttl
    THEN [self |-> [self EXCEPT !.cache = OdDel(self.cache, key),
                                !.timestamps = DictDel(self.timestamps, key)],
          value |-> NoneV]
    ELSE LET moved == OdMoveToEnd(self.cache, key)
         IN [self |-> [self EXCEPT !.cache = moved],
             value |-> moved[Len(moved)].v]

\* A set that never evicts.
LRU_set_NoEvict(self, key, value, t) ==
    [self EXCEPT !.cache = OdMoveToEnd(OdPut(self.cache, key, value), key),
                 !.timestamps = DictPut(self.timestamps, key, t)]

LRU_set(self, key, value, t) ==
    LET evict == ~OdHas(self.cache, key) /\ Len(self.cache) >= self.max_size
        oldest_key == self.cache[1].k
        c1 == IF evict THEN OdDel(self.cache, oldest_key) ELSE self.cache
        t1 == IF evict /\ oldest_key \in DOMAIN self.timestamps
              THEN DictDel(self.timestamps, oldest_key) ELSE self.timestamps
    IN [self EXCEPT !.cache = OdMoveToEnd(OdPut(c1, key, value), key),
                    !.timestamps = DictPut(t1, key, t)]

LRU_invalidate(self, key) ==
    IF Truthy(key)
    THEN [self EXCEPT !.cache = OdDel(self.cache, key),
                      !.timestamps = DictDel(self.timestamps, key)]
    ELSE [self EXCEPT !.cache = <<>>, !.timestamps = EmptyDict]

\* ---------------------------------------------------------------- TTLCache
TTLCache(default_ttl) ==
    [cls |-> "TTLCache", default_ttl |-> default_ttl,
     cache |-> EmptyDict, expiry_times |-> EmptyDict]

TTL_remove_expired(self, t) ==
    LET expired_keys == {k \in DOMAIN self.expiry_times : t > self.expiry_times[k]}
    IN [self EXCEPT !.cache = [k \in (DOMAIN self.cache) \ expired_keys |-> self.cache[k]],
                    !.expiry_times = [k \in (DOMAIN self.expiry_times) \ expired_keys
                                        |-> self.expiry_times[k]]]

TTL_get(self, key, t) ==
    IF key \notin DOMAIN self.cache
    THEN [self |-> self, value |-> NoneV]
    ELSE IF t > self.expiry_times[key]
    THEN [self |-> [self EXCEPT !.cache = DictDel(self.cache, key),
                                !.expiry_times = DictDel(self.expiry_times, key)],
          value |-> NoneV]
    ELSE [self |-> self, value |-> self.cache[key]]

\* ttl or self.default_ttl: None and 0 are falsy.
TTL_set(self, key, value, ttl, t) ==
    LET ttl1 == IF ttl = NoneInt \/ ttl = 0 THEN self.default_ttl ELSE ttl
    IN [self EXCEPT !.cache = DictPut(self.cache, key, value),
                    !.expiry_times = DictPut(self.expiry_times, key, t + ttl1)]

TTL_invalidate(self, pattern) ==
    IF Truthy(pattern)
    THEN LET keys_to_remove == {k \in DOMAIN self.cache : IsSubstr(pattern, k)}
         IN [self EXCEPT !.cache = [k \in (DOMAIN self.cache) \ keys_to_remove
                                      |-> self.cache[k]],
                         !.expiry_times = [k \in (DOMAIN self.expiry_times) \ keys_to_remove
                                             |-> self.expiry_times[k]]]
    ELSE [self EXCEPT !.cache = EmptyDict, !.expiry_times = EmptyDict]

\* --------------------------------------------------------- MultiLayerCache
\* The L2 layer is files on disk; CacheManager builds its MultiLayerCache
\* with l2_enabled=False, and only that configuration is modelled.
MultiLayerCache(l1_size) ==
    [cls |-> "MultiLayerCache", l1_cache |-> LRUCache(l1_size, 300), l2_enabled |-> FALSE]

ML_get(self, key, t) ==
    LET r == LRU_get(self.l1_cache, key, t)
    IN [self |-> [self EXCEPT !.l1_cache = r.self], value |-> r.value]

ML_set(self, key, value, t) ==
    [self EXCEPT !.l1_cache = LRU_set(self.l1_cache, key, value, t)]

ML_invalidate(self, key) ==
    [self EXCEPT !.l1_cache = LRU_invalidate(self.l1_cache, key)]

\* ------------------------------------------------------------ CacheManager
CacheManager ==
    [cache_type \in {"default", "short", "long", "permanent", "multi"} |->
        CASE cache_type = "default" -> LRUCache(200, 600)
          [] cache_type = "short" -> TTLCache(60)
          [] cache_type = "long" -> LRUCache(100, 3600)
          [] cache_type = "permanent" -> LRUCache(50, 0)
          [] cache_type = "multi" -> MultiLayerCache(100)]

\* cache.get(key), cache.set(key, value) and cache.invalidate(key) on a
\* cache of any of the three classes.
Cache_get(cache, key, t) ==
    CASE cache.cls = "LRUCache" -> LRU_get(cache, key, t)
      [] cache.cls = "TTLCache" -> TTL_get(cache, key, t)
      [] cache.cls = "MultiLayerCache" -> ML_get(cache, key, t)

Cache_set(cache, key, value, t) ==
    CASE cache.cls = "LRUCache" -> LRU_set(cache, key, value, t)
      [] cache.cls = "TTLCache" -> TTL_set(cache, key, value, NoneInt, t)
      [] cache.cls = "MultiLayerCache" -> ML_set(cache, key, value, t)

Cache_invalidate(cache, key) ==
    CASE cache.cls = "LRUCache" -> LRU_invalidate(cache, key)
      [] cache.cls = "TTLCache" -> TTL_invalidate(cache, key)
      [] cache.cls = "MultiLayerCache" -> ML_invalidate(cache, key)

CM_get(cs, key, cache_type, t) ==
    IF cache_type \in DOMAIN cs
    THEN LET r == Cache_get(cs[cache_type], key, t)
         IN [caches |-> [cs EXCEPT ![cache_type] = r.self], value |-> r.value]
    ELSE [caches |-> cs, value |-> NoneV]

CM_set(cs, key, value, cache_type, ttl, t) ==
    IF cache_type \in DOMAIN cs
    THEN LET cache == cs[cache_type]
         IN IF cache.cls = "TTLCache" /\ ttl # NoneInt
            THEN [cs EXCEPT ![cache_type] = TTL_set(cache, key, value, ttl, t)]
            ELSE [cs EXCEPT ![cache_type] = Cache_set(cache, key, value, t)]
    ELSE cs

\* cache_type is an Optional[str]: None is the string "None" here, and
\* None and "" are falsy.
CM_invalidate(cs, key, cache_type) ==
    IF cache_type # "None" /\ cache_type # ""
    THEN IF cache_type \in DOMAIN cs
         THEN [cs EXCEPT ![cache_type] = Cache_invalidate(cs[cache_type], key)]
         ELSE cs
    ELSE [c \in DOMAIN cs |-> Cache_invalidate(cs[c], key)]

\* ":".join(key_parts)
RECURSIVE Join(_)
Join(key_parts) ==
    IF Len(key_parts) = 0 THEN <<>>
    ELSE IF Len(key_parts) = 1 THEN Head(key_parts)
    ELSE Head(key_parts) \o <<":">> \o Join(Tail(key_parts))

\* The functions decorated with @cached: each with its module, its name, the
\* decorator's cache_type and ttl, and the arguments of one call: args, the
\* positional ones, and kwargs, the items of the keyword ones as
\* sorted(kwargs.items()) lists them (at most one here).  All arguments are
\* strings.  A string is a sequence of atoms: a name is one atom.
Decorated ==
    { [module |-> <<"backend.cache_manager">>, name |-> <<"fetch_user_data">>,
       cache_type |-> "short", ttl |-> 30, args |-> << <<"a">> >>, kwargs |-> <<>>],
      [module |-> <<"backend.cache_manager">>, name |-> <<"expensive_calculation">>,
       cache_type |-> "long", ttl |-> 3600, args |-> << <<"a">> >>,
       kwargs |-> << [k |-> <<"param2">>, v |-> <<"b">>] >>],
      [module |-> <<"backend.cache_manager">>, name |-> <<"expensive_calculation">>,
       cache_type |-> "long", ttl |-> 3600, args |-> << <<"a">>, <<"param2", ":", "b">> >>,
       kwargs |-> <<>>],
      [module |-> <<"backend.cache_manager">>, name |-> <<"get_static_config">>,
       cache_type |-> "permanent", ttl |-> NoneInt, args |-> <<>>, kwargs |-> <<>>],
      [module |-> <<"__main__">>, name |-> <<"expensive_function">>,
       cache_type |-> "default", ttl |-> 60, args |-> << <<"a">> >>, kwargs |-> <<>>] }

\* No decorated function.
NoFunc ==
    [module |-> <<>>, name |-> <<>>, cache_type |-> "None", ttl |-> NoneInt,
     args |-> <<>>, kwargs |-> <<>>]

\* The default key of wrapper(*args, **kwargs): module and name, then
\* str(arg) of every positional argument (of a string, the string), then
\* f"{k}:{v}" of every keyword item, joined with ":".
CacheKey(f) ==
    Join(<<f.module, f.name>> \o f.args
         \o [i \in 1..Len(f.kwargs) |-> f.kwargs[i].k \o <<":">> \o f.kwargs[i].v])

\* wrapper(*args) around a function that returns result when it is called:
\* the caches afterwards, the value returned and whether func was called.
Wrapper(cs, f, result, t) ==
    LET cache_key == CacheKey(f)
        got == CM_get(cs, cache_key, f.cache_type, t)
    IN IF got.value # NoneV
       THEN [caches |-> got.caches, value |-> got.value, called |-> FALSE]
       ELSE [caches |-> CM_set(got.caches, cache_key, result, f.cache_type, f.ttl, t),
             value |-> result, called |-> TRUE]

\* ------------------------------------------------ SlidingWindowRateLimiter
SlidingWindowRateLimiter(max_requests, window_seconds) ==
    [max_requests |-> max_requests, window_seconds |-> window_seconds, requests |-> <<>>]

\* while self.requests and self.requests[0] < current_time - window: popleft()
RECURSIVE PopOld(_, _)
PopOld(requests, limit) ==
    IF requests # <<>> /\ Head(requests) < limit
    THEN PopOld(Tail(requests), limit)
    ELSE requests

\* An is_allowed that keeps the old requests.
SW_is_allowed_NoPop(self, t) ==
    IF Len(self.requests) < self.max_requests
    THEN [self |-> [self EXCEPT !.requests = Append(self.requests, t)],
          allowed |-> TRUE, wait |-> 0]
    ELSE [self |-> self, allowed |-> FALSE,
          wait |-> self.window_seconds - (t - self.requests[1])]

SW_is_allowed(self, t) ==
    LET kept == PopOld(self.requests, t - self.window_seconds)
    IN IF Len(kept) < self.max_requests
       THEN [self |-> [self EXCEPT !.requests = Append(kept, t)],
             allowed |-> TRUE, wait |-> 0]
       ELSE [self |-> [self EXCEPT !.requests = kept], allowed |-> FALSE,
             wait |-> self.window_seconds - (t - kept[1])]

\* -------------------------------------------------- TokenBucketRateLimiter
\* refill_rate holds refill_rate * TokenScale and tokens holds
\* tokens * TokenScale; t is the time of construction.
TokenBucketRateLimiter(capacity, refill_rate, t) ==
    [capacity |-> capacity, refill_rate |-> refill_rate,
     tokens |-> capacity * TokenScale, last_refill |-> t]

Min(a, b) == IF a <= b THEN a ELSE b

\* A consume that refills past the capacity.
TB_consume_NoCap(self, tokens, t) ==
    LET elapsed == t - self.last_refill
        tokens_to_add == elapsed * self.refill_rate
        filled == self.tokens + tokens_to_add
    IN IF filled >= tokens * TokenScale
       THEN [self |-> [self EXCEPT !.tokens = filled - tokens * TokenScale,
                                   !.last_refill = t],
             ok |-> TRUE, wait |-> [num |-> 0, den |-> 1]]
       ELSE [self |-> [self EXCEPT !.tokens = filled, !.last_refill = t],
             ok |-> FALSE,
             wait |-> [num |-> tokens * TokenScale - filled, den |-> self.refill_rate]]

\* A consume that forgets when it last refilled.
TB_consume_NoStamp(self, tokens, t) ==
    LET elapsed == t - self.last_refill
        tokens_to_add == elapsed * self.refill_rate
        filled == Min(self.capacity * TokenScale, self.tokens + tokens_to_add)
    IN IF filled >= tokens * TokenScale
       THEN [self |-> [self EXCEPT !.tokens = filled - tokens * TokenScale],
             ok |-> TRUE, wait |-> [num |-> 0, den |-> 1]]
       ELSE [self |-> [self EXCEPT !.tokens = filled],
             ok |-> FALSE,
             wait |-> [num |-> tokens * TokenScale - filled, den |-> self.refill_rate]]

\* wait is the fraction tokens_needed / refill_rate.
TB_consume(self, tokens, t) ==
    LET elapsed == t - self.last_refill
        tokens_to_add == elapsed * self.refill_rate
        filled == Min(self.capacity * TokenScale, self.tokens + tokens_to_add)
    IN IF filled >= tokens * TokenScale
       THEN [self |-> [self EXCEPT !.tokens = filled - tokens * TokenScale,
                                   !.last_refill = t],
             ok |-> TRUE, wait |-> [num |-> 0, den |-> 1]]
       ELSE [self |-> [self EXCEPT !.tokens = filled, !.last_refill = t],
             ok |-> FALSE,
             wait |-> [num |-> tokens * TokenScale - filled, den |-> self.refill_rate]]

\* ----------------------------------------------------- AdaptiveRateLimiter
Max(a, b) == IF a >= b THEN a ELSE b

RECURSIVE Sum(_)
Sum(q) == IF q = <<>> THEN 0 ELSE Head(q) + Sum(Tail(q))

\* The worker thread started by __init__ calls _adjust_rate at once; with no
\* response recorded that call returns without a change.
AdaptiveRateLimiter(base_rate, window_seconds) ==
    [base_rate |-> base_rate, window_seconds |-> window_seconds,
     current_rate |-> base_rate,
     response_times |-> <<>>, error_count |-> 0, success_count |-> 0,
     limiter |-> SlidingWindowRateLimiter(base_rate, window_seconds),
     min_rate |-> Max(1, base_rate \div 10), max_rate |-> base_rate * 3]

\* error_rate = error_count / max(1, error_count + success_count) and
\* avg_response_time = sum(response_times) / len(response_times), compared
\* with 0.1, 0.01, 2.0 and 0.5 without dividing.  int(rate * 0.8),
\* int(rate * 0.9) and int(rate * 1.1) truncate: they are rate * 8 \div 10,
\* rate * 9 \div 10 and rate * 11 \div 10.
AD_adjust_rate(self) ==
    IF self.response_times = <<>>
    THEN self
    ELSE LET total == Sum(self.response_times)
             n == Len(self.response_times)
             calls == Max(1, self.error_count + self.success_count)
             rate == self.current_rate
             new_rate ==
                 IF 10 * self.error_count > calls
                 THEN Max(self.min_rate, (rate * 8) \div 10)
                 ELSE IF total > 2 * n * LatencyScale
                 THEN Max(self.min_rate, (rate * 9) \div 10)
                 ELSE IF 100 * self.error_count < calls /\ 2 * total < n * LatencyScale
                 THEN Min(self.max_rate, (rate * 11) \div 10)
                 ELSE rate
         IN [self EXCEPT !.error_count = 0, !.success_count = 0,
                         !.current_rate = new_rate,
                         !.limiter = SlidingWindowRateLimiter(new_rate, self.window_seconds)]

AD_is_allowed(self, t) ==
    LET r == SW_is_allowed(self.limiter, t)
    IN [self |-> [self EXCEPT !.limiter = r.self], allowed |-> r.allowed, wait |-> r.wait]

\* response_times is a deque(maxlen=100): a full deque drops its oldest item.
AD_record_response(self, response_time, success) ==
    LET appended == Append(self.response_times, response_time)
        kept == IF Len(appended) > ResponseTimesMaxlen THEN Tail(appended) ELSE appended
    IN [self EXCEPT !.response_times = kept,
                    !.success_count = IF success THEN @ + 1 ELSE @,
                    !.error_count = IF success THEN @ ELSE @ + 1]

\* ---------------------------------------------------- MultiTierRateLimiter
\* A user_id is a string: a sequence of atoms, of which "premium_" and
\* "basic_" are the two prefixes get_user_tier looks for.
StartsWith(str, prefix) ==
    Len(str) >= Len(prefix) /\ SubSeq(str, 1, Len(prefix)) = prefix

Tiers ==
    [tier \in {"free", "basic", "premium", "unlimited"} |->
        CASE tier = "free" ->
                 [requests_per_minute |-> FreePerMinute, requests_per_hour |-> FreePerHour]
          [] tier = "basic" ->
                 [requests_per_minute |-> BasicPerMinute, requests_per_hour |-> BasicPerHour]
          [] tier = "premium" ->
                 [requests_per_minute |-> PremiumPerMinute,
                  requests_per_hour |-> PremiumPerHour]
          [] tier = "unlimited" ->
                 [requests_per_minute |-> Infinity, requests_per_hour |-> Infinity]]

MultiTierRateLimiter == [tiers |-> Tiers, user_limiters |-> EmptyDict]

MT_get_user_tier(user_id) ==
    IF StartsWith(user_id, <<"premium_">>) THEN "premium"
    ELSE IF StartsWith(user_id, <<"basic_">>) THEN "basic"
    ELSE IF user_id = <<"admin">> THEN "unlimited"
    ELSE "free"

\* The message is its text and the number int(wait) put into it.
Message(text, wait) == [text |-> text, wait |-> wait]

\* An is_allowed that does not ask the hourly window.
MT_is_allowed_NoHour(self, user_id, t) ==
    LET limits == self.tiers[MT_get_user_tier(user_id)]
        user_limiters ==
            IF user_id \in DOMAIN self.user_limiters
            THEN self.user_limiters
            ELSE DictPut(self.user_limiters, user_id,
                         [minute |-> SlidingWindowRateLimiter(limits.requests_per_minute,
                                                              MinuteSeconds),
                          hour |-> SlidingWindowRateLimiter(limits.requests_per_hour,
                                                            HourSeconds)])
        limiters == user_limiters[user_id]
        minute == SW_is_allowed(limiters.minute, t)
    IN IF ~minute.allowed
       THEN [self |-> [self EXCEPT !.user_limiters =
                          DictPut(user_limiters, user_id,
                                  [limiters EXCEPT !.minute = minute.self])],
             allowed |-> FALSE,
             message |-> Message("Rate limit exceeded", minute.wait)]
       ELSE [self |-> [self EXCEPT !.user_limiters =
                          DictPut(user_limiters, user_id,
                                  [limiters EXCEPT !.minute = minute.self])],
             allowed |-> TRUE,
             message |-> Message("Request allowed", 0)]

MT_is_allowed(self, user_id, t) ==
    LET limits == self.tiers[MT_get_user_tier(user_id)]
        user_limiters ==
            IF user_id \in DOMAIN self.user_limiters
            THEN self.user_limiters
            ELSE DictPut(self.user_limiters, user_id,
                         [minute |-> SlidingWindowRateLimiter(limits.requests_per_minute,
                                                              MinuteSeconds),
                          hour |-> SlidingWindowRateLimiter(limits.requests_per_hour,
                                                            HourSeconds)])
        limiters == user_limiters[user_id]
        minute == SW_is_allowed(limiters.minute, t)
        hour == SW_is_allowed(limiters.hour, t)
    IN IF ~minute.allowed
       THEN [self |-> [self EXCEPT !.user_limiters =
                          DictPut(user_limiters, user_id,
                                  [limiters EXCEPT !.minute = minute.self])],
             allowed |-> FALSE,
             message |-> Message("Rate limit exceeded", minute.wait)]
       ELSE IF ~hour.allowed
       THEN [self |-> [self EXCEPT !.user_limiters =
                          DictPut(user_limiters, user_id,
                                  [minute |-> minute.self, hour |-> hour.self])],
             allowed |-> FALSE,
             message |-> Message("Hourly limit reached", hour.wait)]
       ELSE [self |-> [self EXCEPT !.user_limiters =
                          DictPut(user_limiters, user_id,
                                  [minute |-> minute.self, hour |-> hour.self])],
             allowed |-> TRUE,
             message |-> Message("Request allowed", 0)]

\* limits[...] - used is a float for the unlimited tier: inf less any
\* number is inf.
MT_get_remaining_quota(self, user_id) ==
    LET tier == MT_get_user_tier(user_id)
        limits == self.tiers[tier]
        Remaining(limit, n) == IF limit = Infinity THEN Infinity ELSE Max(0, limit - n)
    IN IF user_id \notin DOMAIN self.user_limiters
       THEN [self |-> self,
             value |-> [tier |-> tier,
                        minute_remaining |-> limits.requests_per_minute,
                        hour_remaining |-> limits.requests_per_hour]]
       ELSE LET limiters == self.user_limiters[user_id]
                minute_used == Len(limiters.minute.requests)
                hour_used == Len(limiters.hour.requests)
            IN [self |-> self,
                value |-> [tier |-> tier,
                           minute_remaining |->
                               Remaining(limits.requests_per_minute, minute_used),
                           hour_remaining |->
                               Remaining(limits.requests_per_hour, hour_used)]]

\* -------------------------------------------------- APIEndpointRateLimiter
\* The buckets of self.endpoint_limits with their capacity and refill_rate
\* (1.0, 0.5 and 5.0 tokens a second), all built at time t.  The bucket of
\* /api/upload (capacity=5, refill_rate=0.2) is left out: its rate is no
\* multiple of 1/TokenScale, and no call modelled here names that endpoint.
APIEndpointRateLimiter(t) ==
    [endpoint_limits |->
        [endpoint \in {"/api/recognize", "/api/generate", "/api/search"} |->
            CASE endpoint = "/api/recognize" ->
                     TokenBucketRateLimiter(RecognizeCapacity, TokenScale, t)
              [] endpoint = "/api/generate" ->
                     TokenBucketRateLimiter(GenerateCapacity, TokenScale \div 2, t)
              [] endpoint = "/api/search" ->
                     TokenBucketRateLimiter(SearchCapacity, 5 * TokenScale, t)],
     ip_limiters |-> EmptyDict]

\* self.ip_limiters is a defaultdict: reading a new address stores a new
\* window for it.  int(endpoint_wait) truncates the quotient.
API_is_allowed(self, endpoint, ip_address, t) ==
    LET ip_limiters ==
            IF ip_address \in DOMAIN self.ip_limiters
            THEN self.ip_limiters
            ELSE DictPut(self.ip_limiters, ip_address,
                         SlidingWindowRateLimiter(IpMaxRequests, IpWindowSeconds))
        ip == SW_is_allowed(ip_limiters[ip_address], t)
        self1 == [self EXCEPT !.ip_limiters = DictPut(ip_limiters, ip_address, ip.self)]
    IN IF ~ip.allowed
       THEN [self |-> self1, allowed |-> FALSE,
             message |-> Message("IP rate limit exceeded", ip.wait)]
       ELSE IF endpoint \in DOMAIN self.endpoint_limits
       THEN LET r == TB_consume(self.endpoint_limits[endpoint], 1, t)
                self2 == [self1 EXCEPT !.endpoint_limits[endpoint] = r.self]
            IN IF ~r.ok
               THEN [self |-> self2, allowed |-> FALSE,
                     message |-> Message("Endpoint rate limit exceeded",
                                         r.wait.num \div r.wait.den)]
               ELSE [self |-> self2, allowed |-> TRUE,
                     message |-> Message("Request allowed", 0)]
       ELSE [self |-> self1, allowed |-> TRUE, message |-> Message("Request allowed", 0)]

\* ---------------------------------------------------------- SessionManager
\* self.sessions is an OrderedDict from token to session.  A token of
\* secrets.token_urlsafe(32) is a number never issued before.
SessionManager(max_sessions, session_ttl) ==
    [max_sessions |-> max_sessions, session_ttl |-> session_ttl, sessions |-> <<>>]

\* A create_session that evicts nothing.
SM_create_session_NoEvict(self, token, user_id, user_data, t) ==
    LET session == [user_id |-> user_id, user_data |-> user_data, created_at |-> t,
                    last_accessed |-> t, expires_at |-> t + self.session_ttl]
    IN [self |-> [self EXCEPT !.sessions =
                     OdMoveToEnd(OdPut(self.sessions, token, session), token)],
        token |-> token, error |-> NoneV]

\* popitem(last=False) of an empty OrderedDict raises KeyError; the lock is
\* released and nothing is stored.
SM_create_session(self, token, user_id, user_data, t) ==
    IF Len(self.sessions) >= self.max_sessions /\ self.sessions = <<>>
    THEN [self |-> self, token |-> NoneInt, error |-> "KeyError"]
    ELSE LET kept == IF Len(self.sessions) >= self.max_sessions
                     THEN Tail(self.sessions) ELSE self.sessions
             session == [user_id |-> user_id, user_data |-> user_data, created_at |-> t,
                         last_accessed |-> t, expires_at |-> t + self.session_ttl]
         IN [self |-> [self EXCEPT !.sessions =
                          OdMoveToEnd(OdPut(kept, token, session), token)],
             token |-> token, error |-> NoneV]

\* A get_session that does not look at expires_at.
SM_get_session_NoExpiry(self, token, t) ==
    IF ~OdHas(self.sessions, token)
    THEN [self |-> self, value |-> NoneV]
    ELSE LET session == self.sessions[OdGet(self.sessions, token)].v
             touched == OdPut(self.sessions, token, [session EXCEPT !.last_accessed = t])
         IN [self |-> [self EXCEPT !.sessions = OdMoveToEnd(touched, token)],
             value |-> session.user_data]

\* A session is a dict of five keys, never falsy: not session is true only
\* for a token that is not stored.
SM_get_session(self, token, t) ==
    IF ~OdHas(self.sessions, token)
    THEN [self |-> self, value |-> NoneV]
    ELSE LET session == self.sessions[OdGet(self.sessions, token)].v
         IN IF t > session.expires_at
            THEN [self |-> [self EXCEPT !.sessions = OdDel(self.sessions, token)],
                  value |-> NoneV]
            ELSE LET touched == OdPut(self.sessions, token,
                                      [session EXCEPT !.last_accessed = t])
                 IN [self |-> [self EXCEPT !.sessions = OdMoveToEnd(touched, token)],
                     value |-> session.user_data]

SM_delete_session(self, token) ==
    IF OdHas(self.sessions, token)
    THEN [self |-> [self EXCEPT !.sessions = OdDel(self.sessions, token)], value |-> TRUE]
    ELSE [self |-> self, value |-> FALSE]

\* A sweep that keeps the newest session whatever its age.
SM_cleanup_expired_sessions_KeepNewest(self, t) ==
    LET expired_tokens == {self.sessions[i].k : i \in
                              {j \in 1..(Len(self.sessions) - 1) :
                                   t > self.sessions[j].v.expires_at}}
    IN [self |-> [self EXCEPT !.sessions =
                     SelectSeq(self.sessions, LAMBDA e : e.k \notin expired_tokens)],
        value |-> Cardinality(expired_tokens)]

SM_cleanup_expired_sessions(self, t) ==
    LET expired_tokens == {self.sessions[i].k : i \in
                              {j \in 1..Len(self.sessions) :
                                   t > self.sessions[j].v.expires_at}}
    IN [self |-> [self EXCEPT !.sessions =
                     SelectSeq(self.sessions, LAMBDA e : e.k \notin expired_tokens)],
        value |-> Cardinality(expired_tokens)]

SM_get_active_sessions_count(self) == Len(self.sessions)

SM_extend_session(self, token, additional_seconds) ==
    IF OdHas(self.sessions, token)
    THEN LET session == self.sessions[OdGet(self.sessions, token)].v
             extended == OdPut(self.sessions, token,
                               [session EXCEPT !.expires_at = @ + additional_seconds])
         IN [self |-> [self EXCEPT !.sessions = OdMoveToEnd(extended, token)],
             value |-> TRUE]
    ELSE [self |-> self, value |-> FALSE]

\* ----------------------------------------------------------- ConnectionPool
\* database_optimized.py.  A connection is named by the order of its
\* sqlite3.connect call (connects counts them); _pool is the Queue, a
\* sequence of connections with room for max_connections; lock is the thread
\* that holds _lock.
NoConnection == 0
NoThread == "-"

\* _create_connection run without interruption: connect, the PRAGMAs, and
\* the count of created connections raised by one.
CP_create_connection(self) ==
    [self |-> [self EXCEPT !.connects = @ + 1, !.created_connections = @ + 1],
     value |-> self.connects + 1]

\* for _ in range(n): self._create_connection(), the connection returned by
\* each call being dropped.
RECURSIVE CP_precreate(_, _)
CP_precreate(self, n) ==
    IF n <= 0 THEN self ELSE CP_precreate(CP_create_connection(self).self, n - 1)

ConnectionPool(max_connections) ==
    CP_precreate([max_connections |-> max_connections,
                  pool |-> <<>>,
                  lock |-> NoThread,
                  created_connections |-> 0,
                  connects |-> 0],
                 Min(Precreated, max_connections))

\* Queue.empty(), Queue.full() of Queue(maxsize=max_connections).
CP_pool_empty(self) == self.pool = <<>>
CP_pool_full(self) == Len(self.pool) >= self.max_connections

\* ------------------------------------------------- one Eviction Cache instance
\* The instance is an LRUCache (kind = "lru") or a TTLCache (kind = "ttl"),
\* built with constructor arguments from the bounded sets.  ret describes
\* the last call: its arguments, its return value, the keys it removed, and
\* what held when it was made (had: the key was stored; full: the cache held
\* max_size entries; victim: the stored key whose last successful get or set
\* was the oldest; stale: more than the entry's time-to-live had passed
\* since its last set).  recency and setAt are history: the keys in the
\* order of their last successful get or set (oldest first, evicted keys
\* kept), and for every stored key the time and time-to-live of its last set.

KeysOf(c) == IF kind = "lru" THEN OdKeys(c.cache) ELSE DOMAIN c.cache
Cache == IF kind = "lru" THEN lru ELSE ttlc

Touch(r, key) == Append(SelectSeq(r, LAMBDA k : k # key), key)

Victim(c) ==
    LET stored == SelectSeq(recency, LAMBDA k : k \in KeysOf(c))
    IN IF stored = <<>> THEN NoneKey ELSE Head(stored)

Stale(key) ==
    /\ key \in DOMAIN setAt
    /\ now - setAt[key].t > setAt[key].ttl

Call(op, key, value, pre, post) ==
    [op |-> op, key |-> key, value |-> value, t |-> now,
     removed |-> KeysOf(pre) \ KeysOf(post),
     had |-> key \in KeysOf(pre),
     full |-> kind = "lru" /\ Cardinality(KeysOf(pre)) >= lru.max_size,
     victim |-> IF kind = "lru" THEN Victim(pre) ELSE NoneKey,
     stale |-> Stale(key)]

Stored(h, post) == [k \in (DOMAIN h) \cap KeysOf(post) |-> h[k]]

SwIdle ==
    /\ sw = SlidingWindowRateLimiter(1, 1)
    /\ swret = [op |-> "idle", allowed |-> TRUE, wait |-> 0, t |-> 0]

TbIdle ==
    /\ tb = <<>>
    /\ tbret = <<>>
    /\ markT = 0
    /\ granted = 0

MgrIdle ==
    /\ caches = <<>> /\ used = "" /\ memo = <<>> /\ ttlAt = <<>> /\ mret = <<>>

AdIdle ==
    /\ ad = <<>> /\ adret = <<>>

MtIdle ==
    /\ mt = <<>> /\ mtret = <<>> /\ admitted = <<>>

ChIdle ==
    /\ api = <<>> /\ ch = <<>>

SmIdle ==
    /\ sm = <<>> /\ smret = <<>> /\ smh = <<>>

CpIdle ==
    /\ cp = <<>> /\ th = <<>> /\ ph = <<>>

LkIdle ==
    /\ lk = <<>>

CacheInit ==
    /\ now = 0
    /\ SwIdle /\ TbIdle /\ MgrIdle /\ AdIdle /\ MtIdle /\ ChIdle /\ SmIdle /\ CpIdle /\ LkIdle
    /\ kind \in {"lru", "ttl"}
    /\ lru \in {LRUCache(m, t) : m \in IF kind = "lru" THEN 1..MaxSize ELSE {1},
                                 t \in IF kind = "lru" THEN 0..MaxTtl ELSE {0}}
    /\ ttlc \in {TTLCache(d) : d \in IF kind = "ttl" THEN 0..MaxTtl ELSE {0}}
    /\ recency = <<>>
    /\ setAt = EmptyDict
    /\ ret = Call("init", NoneKey, NoneV, Cache, Cache)

Tick ==
    /\ now < MaxTime
    /\ now' = now + 1
    /\ ret' = Call("tick", NoneKey, NoneV, Cache, Cache)
    /\ UNCHANGED <<kind, lru, ttlc, recency, setAt>>
    /\ UNCHANGED notCache

LruGet(key) ==
    /\ kind = "lru"
    /\ LET r == LRU_get(lru, key, now)
       IN /\ lru' = r.self
          /\ ret' = Call("get", key, r.value, lru, r.self)
          /\ recency' = IF OdHas(r.self.cache, key) THEN Touch(recency, key) ELSE recency
          /\ setAt' = Stored(setAt, r.self)
    /\ UNCHANGED <<now, kind, ttlc>>
    /\ UNCHANGED notCache

LruSet(key, value) ==
    /\ kind = "lru"
    /\ lru' = LRU_set(lru, key, value, now)
    /\ ret' = Call("set", key, value, lru, lru')
    /\ recency' = Touch(recency, key)
    /\ setAt' = Stored(DictPut(setAt, key, [t |-> now, ttl |-> lru.ttl]), lru')
    /\ UNCHANGED <<now, kind, ttlc>>
    /\ UNCHANGED notCache

LruInvalidate(key) ==
    /\ kind = "lru"
    /\ lru' = LRU_invalidate(lru, key)
    /\ ret' = Call("invalidate", key, NoneV, lru, lru')
    /\ setAt' = Stored(setAt, lru')
    /\ UNCHANGED <<now, kind, ttlc, recency>>
    /\ UNCHANGED notCache

TtlGet(key) ==
    /\ kind = "ttl"
    /\ LET r == TTL_get(ttlc, key, now)
       IN /\ ttlc' = r.self
          /\ ret' = Call("get", key, r.value, ttlc, r.self)
          /\ setAt' = Stored(setAt, r.self)
    /\ UNCHANGED <<now, kind, lru, recency>>
    /\ UNCHANGED notCache

\* The entry's time-to-live is the one asked for, or the default.
TtlSet(key, value, ttl) ==
    /\ kind = "ttl"
    /\ ttlc' = TTL_set(ttlc, key, value, ttl, now)
    /\ ret' = Call("set", key, value, ttlc, ttlc')
    /\ setAt' = DictPut(setAt, key,
                        [t |-> now, ttl |-> IF ttl > 0 THEN ttl ELSE ttlc.default_ttl])
    /\ UNCHANGED <<now, kind, lru, recency>>
    /\ UNCHANGED notCache

TtlInvalidate(pattern) ==
    /\ kind = "ttl"
    /\ ttlc' = TTL_invalidate(ttlc, pattern)
    /\ ret' = Call("invalidate", pattern, NoneV, ttlc, ttlc')
    /\ setAt' = Stored(setAt, ttlc')
    /\ UNCHANGED <<now, kind, lru, recency>>
    /\ UNCHANGED notCache

\* One round of _cleanup_worker.
TtlSweep ==
    /\ kind = "ttl"
    /\ ttlc' = TTL_remove_expired(ttlc, now)
    /\ ret' = Call("sweep", NoneKey, NoneV, ttlc, ttlc')
    /\ setAt' = Stored(setAt, ttlc')
    /\ UNCHANGED <<now, kind, lru, recency>>
    /\ UNCHANGED notCache

CacheNext ==
    \/ Tick
    \/ \E key \in Keys : LruGet(key)
    \/ \E key \in Keys, value \in Vals : LruSet(key, value)
    \/ \E key \in OptKeys : LruInvalidate(key)
    \/ \E key \in TtlKeys : TtlGet(key)
    \/ \E key \in TtlKeys, value \in Vals, ttl \in {NoneInt} \cup 0..MaxTtl :
          TtlSet(key, value, ttl)
    \/ \E pattern \in OptKeys : TtlInvalidate(pattern)
    \/ TtlSweep

SpecCache == CacheInit /\ [][CacheNext]_vars

\* ------------------------------------------ one SlidingWindowRateLimiter
\* swret is the last is_allowed call: its time and the pair it returned.

CacheIdle ==
    /\ kind = "idle"
    /\ lru = <<>> /\ ttlc = <<>> /\ recency = <<>> /\ setAt = <<>> /\ ret = <<>>

SwInit ==
    /\ now = 0
    /\ CacheIdle /\ TbIdle /\ MgrIdle /\ AdIdle /\ MtIdle /\ ChIdle /\ SmIdle /\ CpIdle /\ LkIdle
    /\ sw \in {SlidingWindowRateLimiter(m, w) : m \in 1..MaxRequests, w \in 1..MaxWindow}
    /\ swret = [op |-> "init", allowed |-> TRUE, wait |-> 0, t |-> 0]

SwTick ==
    /\ now < MaxWindowTime
    /\ now' = now + 1
    /\ swret' = [op |-> "tick", allowed |-> TRUE, wait |-> 0, t |-> now]
    /\ UNCHANGED sw
    /\ UNCHANGED notSw

SwIsAllowed ==
    /\ LET r == SW_is_allowed(sw, now)
       IN /\ sw' = r.self
          /\ swret' = [op |-> "is_allowed", allowed |-> r.allowed, wait |-> r.wait, t |-> now]
    /\ UNCHANGED now
    /\ UNCHANGED notSw

SwNext ==
    \/ SwTick
    \/ SwIsAllowed

SpecSw == SwInit /\ [][SwNext]_vars

\* -------------------------------------------- one TokenBucketRateLimiter
\* tbret is the last consume call: what it asked for, what it returned, and
\* whether its refill was cut at the capacity.  granted counts the tokens
\* that successful consume calls were given since the time markT, which any
\* step may reset to the present: the start of an interval.

Capacities == 1..MaxCapacity \cup {GenerateCapacity}

TbQuiet(op) == [op |-> op, n |-> 0, ok |-> TRUE, wait |-> [num |-> 0, den |-> 1],
                capped |-> FALSE]

TbInit ==
    /\ now = 0
    /\ CacheIdle /\ SwIdle /\ MgrIdle /\ AdIdle /\ MtIdle /\ ChIdle /\ SmIdle /\ CpIdle /\ LkIdle
    /\ tb \in {TokenBucketRateLimiter(c, r, 0) : c \in Capacities, r \in 1..MaxRate}
    /\ tbret = TbQuiet("init")
    /\ markT = 0
    /\ granted = 0

TbTick ==
    /\ now < MaxBucketTime
    /\ now' = now + 1
    /\ tbret' = TbQuiet("tick")
    /\ UNCHANGED <<tb, markT, granted>>
    /\ UNCHANGED notTb

TbConsume(n) ==
    /\ LET r == TB_consume(tb, n, now)
       IN /\ tb' = r.self
          /\ tbret' = [op |-> "consume", n |-> n, ok |-> r.ok, wait |-> r.wait,
                       capped |-> tb.tokens + (now - tb.last_refill) * tb.refill_rate
                                     > tb.capacity * TokenScale]
          /\ granted' = IF r.ok THEN granted + n ELSE granted
    /\ UNCHANGED <<now, markT>>
    /\ UNCHANGED notTb

TbMark ==
    /\ markT' = now
    /\ granted' = 0
    /\ tbret' = TbQuiet("mark")
    /\ UNCHANGED <<now, tb>>
    /\ UNCHANGED notTb

TbNext ==
    \/ TbTick
    \/ \E n \in 1..(tb.capacity + 1) : TbConsume(n)
    \/ TbMark

SpecTb == TbInit /\ [][TbNext]_vars

\* ------------------------------------------------ the global CacheManager
\* One behaviour names one cache_type in its calls (used): a tier of the
\* manager or a name it does not know.  The calls are cache_get, cache_set
\* and cache_invalidate with direct keys, and the wrappers of the decorated
\* functions, one call at a time.  mret describes the last call; memo and
\* ttlAt are history: for the key of a decorated call the call (f) that
\* last ran the function for it, with the time and the result, forgotten
\* when anything is invalidated or the key is set directly; for a direct
\* key the time and the ttl of its last cache_set, when that gave a ttl > 0.

MgrKeys == {<<"a">>, <<"a", "b">>}
CacheTypes == DOMAIN CacheManager \cup {"nosuch"}

StoredKeys(cache) ==
    CASE cache.cls = "LRUCache" -> OdKeys(cache.cache)
      [] cache.cls = "TTLCache" -> DOMAIN cache.cache
      [] cache.cls = "MultiLayerCache" -> OdKeys(cache.l1_cache.cache)

AllStored(cs) == UNION {{<<c, k>> : k \in StoredKeys(cs[c])} : c \in DOMAIN cs}

MQuiet(op) ==
    [op |-> op, key |-> NoneKey, cache_type |-> "None", value |-> NoneV,
     called |-> FALSE, stale |-> FALSE, fresh |-> FALSE, first |-> NoneV, removed |-> {},
     f |-> NoFunc]

MgrInit ==
    /\ now = 0
    /\ CacheIdle /\ SwIdle /\ TbIdle /\ AdIdle /\ MtIdle /\ ChIdle /\ SmIdle /\ CpIdle /\ LkIdle
    /\ caches = CacheManager
    /\ used \in CacheTypes
    /\ memo = EmptyDict
    /\ ttlAt = EmptyDict
    /\ mret = MQuiet("init")

MgrTick ==
    /\ now < MaxManagerTime
    /\ now' = now + 1
    /\ mret' = MQuiet("tick")
    /\ UNCHANGED <<caches, used, memo, ttlAt>>
    /\ UNCHANGED notMgr

\* One round of the _cleanup_worker of the TTLCache of the tier "short".
MgrSweep ==
    /\ caches' = [caches EXCEPT !["short"] = TTL_remove_expired(@, now)]
    /\ mret' = MQuiet("sweep")
    /\ UNCHANGED <<now, used, memo, ttlAt>>
    /\ UNCHANGED notMgr

MgrGet(key) ==
    /\ LET r == CM_get(caches, key, used, now)
       IN /\ caches' = r.caches
          /\ mret' = [MQuiet("get") EXCEPT
                        !.key = key, !.cache_type = used, !.value = r.value,
                        !.stale = /\ key \in DOMAIN ttlAt
                                  /\ now - ttlAt[key].t > ttlAt[key].ttl]
    /\ UNCHANGED <<now, used, memo, ttlAt>>
    /\ UNCHANGED notMgr

MgrSet(key, value, ttl) ==
    /\ caches' = CM_set(caches, key, value, used, ttl, now)
    /\ mret' = [MQuiet("set") EXCEPT !.key = key, !.cache_type = used, !.value = value]
    /\ ttlAt' = IF ttl > 0 /\ used \in DOMAIN caches
                THEN DictPut(ttlAt, key, [t |-> now, ttl |-> ttl])
                ELSE DictDel(ttlAt, key)
    /\ memo' = DictDel(memo, key)
    /\ UNCHANGED <<now, used>>
    /\ UNCHANGED notMgr

MgrInvalidate(key, cache_type) ==
    /\ cache_type \in {used, "None"}
    /\ caches' = CM_invalidate(caches, key, cache_type)
    /\ mret' = [MQuiet("invalidate") EXCEPT
                  !.key = key, !.cache_type = cache_type,
                  !.removed = AllStored(caches) \ AllStored(caches')]
    /\ memo' = EmptyDict
    /\ UNCHANGED <<now, used, ttlAt>>
    /\ UNCHANGED notMgr

MgrCall(f, result) ==
    /\ f.cache_type = used
    /\ LET r == Wrapper(caches, f, result, now)
           fresh == /\ CacheKey(f) \in DOMAIN memo
                    /\ memo[CacheKey(f)].f = f
                    /\ f.ttl = NoneInt \/ now - memo[CacheKey(f)].t <= f.ttl
       IN /\ caches' = r.caches
          /\ mret' = [MQuiet("call") EXCEPT
                        !.key = CacheKey(f), !.cache_type = used, !.value = r.value,
                        !.called = r.called, !.fresh = fresh, !.f = f,
                        !.first = IF fresh THEN memo[CacheKey(f)].result ELSE NoneV]
          /\ memo' = IF r.called
                     THEN DictPut(memo, CacheKey(f),
                                  [t |-> now, result |-> result, f |-> f])
                     ELSE memo
    /\ UNCHANGED <<now, used, ttlAt>>
    /\ UNCHANGED notMgr

\* wrapper.invalidate_cache() of the decorated function f.
MgrInvalidateCache(f) ==
    /\ f.cache_type = used
    /\ caches' = CM_invalidate(caches, NoneKey, f.cache_type)
    /\ mret' = [MQuiet("invalidate_cache") EXCEPT
                  !.cache_type = f.cache_type, !.f = f,
                  !.removed = AllStored(caches) \ AllStored(caches')]
    /\ memo' = EmptyDict
    /\ UNCHANGED <<now, used, ttlAt>>
    /\ UNCHANGED notMgr

MgrNext ==
    \/ MgrTick
    \/ MgrSweep
    \/ \E key \in MgrKeys : MgrGet(key)
    \/ \E key \in MgrKeys, value \in Vals, ttl \in {NoneInt, 1} : MgrSet(key, value, ttl)
    \/ \E key \in MgrKeys \cup {<<>>, NoneKey}, cache_type \in CacheTypes \cup {"None"} :
          MgrInvalidate(key, cache_type)
    \/ \E f \in Decorated, result \in Vals : MgrCall(f, result)
    \/ \E f \in Decorated : MgrInvalidateCache(f)

SpecMgr == MgrInit /\ [][MgrNext]_vars

\* ------------------------------------------------ one AdaptiveRateLimiter
\* adret is the last call: for _adjust_rate, whether a response was recorded
\* (ran), the current_rate before it, and what the metrics were when it
\* ran (good: error rate below 1% and mean response time below 0.5 s); for
\* is_allowed, the pair it returned.

BaseRates == 1..MaxBaseRate \cup {DefaultBaseRate}
AdaptiveWindows == 1..MaxAdaptiveWindow \cup {DefaultWindowSeconds}
\* 1/LatencyScale s, 1 s and 4 s
Latencies == {1, LatencyScale, 4 * LatencyScale}

\* adret is the last call, with three facts about the calls before it that
\* a call hands on: fed, a response was recorded since the last round of
\* _adjust_rate; admits, the number of is_allowed calls that returned true
\* at the present instant; peak, the largest current_rate in force at the
\* present instant.
AdQuiet(op) ==
    [op |-> op, ran |-> FALSE, good |-> FALSE, unfed |-> FALSE, before |-> 0,
     allowed |-> TRUE, wait |-> 0,
     fed |-> adret.fed, admits |-> adret.admits, peak |-> adret.peak]

AdInit ==
    /\ now = 0
    /\ CacheIdle /\ SwIdle /\ TbIdle /\ MgrIdle /\ MtIdle /\ ChIdle /\ SmIdle /\ CpIdle /\ LkIdle
    /\ ad \in {AdaptiveRateLimiter(b, w) : b \in BaseRates, w \in AdaptiveWindows}
    /\ adret = [op |-> "init", ran |-> FALSE, good |-> FALSE, unfed |-> FALSE,
                before |-> 0, allowed |-> TRUE, wait |-> 0,
                fed |-> FALSE, admits |-> 0, peak |-> ad.current_rate]

AdTick ==
    /\ now < MaxAdaptiveTime
    /\ now' = now + 1
    /\ adret' = [AdQuiet("tick") EXCEPT !.admits = 0, !.peak = ad.current_rate]
    /\ UNCHANGED ad
    /\ UNCHANGED notAd

\* One round of _adjust_rate_worker.
AdAdjustRate ==
    /\ ad' = AD_adjust_rate(ad)
    /\ adret' = [AdQuiet("adjust") EXCEPT
                   !.ran = Len(ad.response_times) >= 1,
                   !.unfed = ~adret.fed,
                   !.fed = FALSE,
                   !.peak = Max(@, AD_adjust_rate(ad).current_rate),
                   !.before = ad.current_rate,
                   !.good = /\ Len(ad.response_times) >= 1
                            /\ 100 * ad.error_count < ad.error_count + ad.success_count
                                 \/ ad.error_count = 0
                            /\ 2 * Sum(ad.response_times)
                                  < LatencyScale * Len(ad.response_times)]
    /\ UNCHANGED now
    /\ UNCHANGED notAd

AdIsAllowed ==
    /\ Len(ad.limiter.requests) < MaxAdaptiveRequests
    /\ adret.admits < MaxAdmits
    /\ LET r == AD_is_allowed(ad, now)
       IN /\ ad' = r.self
          /\ adret' = [AdQuiet("is_allowed") EXCEPT
                         !.allowed = r.allowed, !.wait = r.wait,
                         !.admits = IF r.allowed THEN @ + 1 ELSE @]
    /\ UNCHANGED now
    /\ UNCHANGED notAd

AdRecordResponse(response_time, success) ==
    /\ Len(ad.response_times) < MaxResponses
    /\ ad' = AD_record_response(ad, response_time, success)
    /\ adret' = [AdQuiet("record_response") EXCEPT !.fed = TRUE]
    /\ UNCHANGED now
    /\ UNCHANGED notAd

AdNext ==
    \/ AdTick
    \/ AdAdjustRate
    \/ AdIsAllowed
    \/ \E response_time \in Latencies, success \in BOOLEAN :
          AdRecordResponse(response_time, success)

SpecAd == AdInit /\ [][AdNext]_vars

\* ----------------------------------------------- one MultiTierRateLimiter
\* time.time() is read at the instants of TierTimes, which fall on both
\* sides of the ends of a minute and of an hour.  mtret is the last
\* is_allowed call: the user_id, what was returned, and whether each of the
\* user's two windows had room when the call was made (fewer timestamps
\* than its budget among those not older than the window; a user never seen
\* has empty windows).  admitted is history: for every user_id the times
\* of the calls that were admitted.  One behaviour has two callers: the
\* user_ids of DOMAIN admitted.

UserIds == {<<"u">>, <<"basic_", "u">>, <<"premium_", "u">>, <<"admin">>}
TierTimes == {0, 60, 61, 122, 3600, 3601}

\* The timestamps of a window that are at most window_seconds old at time t.
InWindow(limiter, t) ==
    {i \in 1..Len(limiter.requests) : limiter.requests[i] >= t - limiter.window_seconds}

HasRoom(self, user_id, which, t) ==
    \/ user_id \notin DOMAIN self.user_limiters
    \/ Cardinality(InWindow(self.user_limiters[user_id][which], t))
          < self.user_limiters[user_id][which].max_requests

MtQuiet(op) ==
    [op |-> op, user_id |-> <<>>, allowed |-> FALSE, message |-> Message("", 0),
     minute_room |-> FALSE, hour_room |-> FALSE, quota |-> <<>>, untouched |-> TRUE]

MtInit ==
    /\ now = 0
    /\ CacheIdle /\ SwIdle /\ TbIdle /\ MgrIdle /\ AdIdle /\ ChIdle /\ SmIdle /\ CpIdle /\ LkIdle
    /\ mt = MultiTierRateLimiter
    /\ mtret = MtQuiet("init")
    /\ admitted \in {[u \in {u1, u2} |-> <<>>] : u1, u2 \in UserIds}
    /\ Cardinality(DOMAIN admitted) = 2

MtTick ==
    /\ \E t \in TierTimes : t > now /\ now' = t
    /\ mtret' = MtQuiet("tick")
    /\ UNCHANGED <<mt, admitted>>
    /\ UNCHANGED notMt

MtIsAllowed(user_id) ==
    /\ user_id \in DOMAIN admitted
    /\ user_id \in DOMAIN mt.user_limiters =>
          Len(mt.user_limiters[user_id].hour.requests) < MaxTierRequests
    /\ LET r == MT_is_allowed(mt, user_id, now)
       IN /\ mt' = r.self
          /\ mtret' = [MtQuiet("is_allowed") EXCEPT
                         !.user_id = user_id,
                         !.allowed = r.allowed, !.message = r.message,
                         !.minute_room = HasRoom(mt, user_id, "minute", now),
                         !.hour_room = HasRoom(mt, user_id, "hour", now)]
          /\ admitted' = IF r.allowed
                         THEN [admitted EXCEPT ![user_id] = Append(@, now)]
                         ELSE admitted
    /\ UNCHANGED now
    /\ UNCHANGED notMt

\* get_remaining_quota, as get_rate_limit_headers calls it.
MtGetRemainingQuota(user_id) ==
    /\ user_id \in DOMAIN admitted
    /\ LET r == MT_get_remaining_quota(mt, user_id)
       IN /\ mt' = r.self
          /\ mtret' = [MtQuiet("get_remaining_quota") EXCEPT
                         !.user_id = user_id, !.quota = r.value,
                         !.untouched = (r.self = mt)]
    /\ UNCHANGED <<now, admitted>>
    /\ UNCHANGED notMt

MtNext ==
    \/ MtTick
    \/ \E user_id \in UserIds : MtIsAllowed(user_id)
    \/ \E user_id \in UserIds : MtGetRemainingQuota(user_id)

SpecMt == MtInit /\ [][MtNext]_vars

\* ------------------------------------------------------- check_rate_limit
\* The three global limiters and one caller of check_rate_limit, whose call
\* goes through its positions one limiter at a time: ch.pc is the limiter
\* asked next ("user", "api", "adaptive") or "done".  ch holds the call's
\* arguments, the limiters it has asked so far with what each answered
\* (asked), what it returned (allowed, message), the api and adaptive
\* limiters as they were when the call began (before), and the number of
\* calls begun (n).

ChainUserIds == {<<"u">>, <<"admin">>}
Endpoints == {"/api/generate", "/other"}
IpAddresses == {"10.0.0.1"}
ChainTimes == {0, 61}

ChInit ==
    /\ now = 0
    /\ CacheIdle /\ SwIdle /\ TbIdle /\ MgrIdle /\ SmIdle /\ CpIdle /\ LkIdle
    /\ mt = MultiTierRateLimiter /\ mtret = MtQuiet("idle") /\ admitted = <<>>
    /\ ad = AdaptiveRateLimiter(DefaultBaseRate, DefaultWindowSeconds)
    /\ adret = [op |-> "idle", ran |-> FALSE, good |-> FALSE, unfed |-> FALSE,
                before |-> 0, allowed |-> TRUE, wait |-> 0,
                fed |-> FALSE, admits |-> 0, peak |-> DefaultBaseRate]
    /\ api = APIEndpointRateLimiter(0)
    /\ ch = [pc |-> "done", user_id |-> <<>>, endpoint |-> "", ip_address |-> "",
             asked |-> <<>>, allowed |-> FALSE, message |-> Message("", 0),
             before |-> <<>>, n |-> 0]

ChTick ==
    /\ \E t \in ChainTimes : t > now /\ now' = t
    /\ UNCHANGED <<mt, ad, api, ch>>
    /\ UNCHANGED notCh

\* check_rate_limit(user_id, endpoint, ip_address) is called.
ChCall(user_id, endpoint, ip_address) ==
    /\ ch.pc = "done"
    /\ ch.n < MaxChecks
    /\ ch' = [pc |-> "user", user_id |-> user_id, endpoint |-> endpoint,
              ip_address |-> ip_address, asked |-> <<>>,
              allowed |-> FALSE, message |-> Message("", 0),
              before |-> [api |-> api, ad |-> ad], n |-> ch.n + 1]
    /\ UNCHANGED <<now, mt, ad, api>>
    /\ UNCHANGED notCh

\* A first step that goes on to the next limiter after a rejection.
ChUser_GoesOn ==
    /\ ch.pc = "user"
    /\ LET r == MT_is_allowed(mt, ch.user_id, now)
           asked == Append(ch.asked, [limiter |-> "user", allowed |-> r.allowed,
                                      message |-> r.message])
       IN /\ mt' = r.self
          /\ ch' = [ch EXCEPT !.pc = "api", !.asked = asked]
    /\ UNCHANGED <<now, ad, api>>
    /\ UNCHANGED notCh

\* _global_user_limiter.is_allowed(user_id)
ChUser ==
    /\ ch.pc = "user"
    /\ LET r == MT_is_allowed(mt, ch.user_id, now)
           asked == Append(ch.asked, [limiter |-> "user", allowed |-> r.allowed,
                                      message |-> r.message])
       IN /\ mt' = r.self
          /\ ch' = IF ~r.allowed
                   THEN [ch EXCEPT !.pc = "done", !.asked = asked,
                                   !.allowed = FALSE, !.message = r.message]
                   ELSE [ch EXCEPT !.pc = "api", !.asked = asked]
    /\ UNCHANGED <<now, ad, api>>
    /\ UNCHANGED notCh

\* _global_api_limiter.is_allowed(endpoint, ip_address)
ChApi ==
    /\ ch.pc = "api"
    /\ LET r == API_is_allowed(api, ch.endpoint, ch.ip_address, now)
           asked == Append(ch.asked, [limiter |-> "api", allowed |-> r.allowed,
                                      message |-> r.message])
       IN /\ api' = r.self
          /\ ch' = IF ~r.allowed
                   THEN [ch EXCEPT !.pc = "done", !.asked = asked,
                                   !.allowed = FALSE, !.message = r.message]
                   ELSE [ch EXCEPT !.pc = "adaptive", !.asked = asked]
    /\ UNCHANGED <<now, mt, ad>>
    /\ UNCHANGED notCh

\* _global_adaptive_limiter.is_allowed(): the message is made here, with
\* int(wait_time).
ChAdaptive ==
    /\ ch.pc = "adaptive"
    /\ LET r == AD_is_allowed(ad, now)
           message == IF r.allowed THEN Message("Request allowed", 0)
                      ELSE Message("System rate limit", r.wait)
           asked == Append(ch.asked, [limiter |-> "adaptive", allowed |-> r.allowed,
                                      message |-> message])
       IN /\ ad' = r.self
          /\ ch' = [ch EXCEPT !.pc = "done", !.asked = asked,
                              !.allowed = r.allowed, !.message = message]
    /\ UNCHANGED <<now, mt, api>>
    /\ UNCHANGED notCh

ChNext ==
    \/ ChTick
    \/ \E user_id \in ChainUserIds, endpoint \in Endpoints, ip_address \in IpAddresses :
          ChCall(user_id, endpoint, ip_address)
    \/ ChUser
    \/ ChApi
    \/ ChAdaptive

SpecCh == ChInit /\ [][ChNext]_vars

\* ----------------------------------------------------- one SessionManager
\* smret is the last call: its arguments, what it returned, the tokens it
\* removed, and what held when it was made.  smh is history: issued counts
\* the tokens issued; recency lists the stored tokens in the order of their
\* last create, successful get or successful extend; gone holds the tokens
\* that were at some time expired (now > expires_at) or removed; calls
\* counts the method calls made, of which a behaviour has MaxSessionCalls.

Tokens == 1..MaxTokens

\* The caller of create_session supplies what the test supplies: the i-th
\* call is create_session(f"user_{i}", {'id': i}).
UserId(i) == "user_" \o ToString(i)
UserData(i) == "{'id': " \o ToString(i) \o "}"

SessionTokens(self) == OdKeys(self.sessions)

SessionOf(self, token) == self.sessions[OdGet(self.sessions, token)].v

\* The stored tokens that are past their expires_at at time t.
StaleTokens(self, t) ==
    {token \in SessionTokens(self) : t > SessionOf(self, token).expires_at}

\* For a get: had, expired, was_gone, read_lately (the token was stored; was
\* stored and past its expires_at; was in gone; was stored and last read
\* less than session_ttl ago).  For a create: full, victim (the store held
\* max_sessions sessions; the least recently used token).  For a cleanup:
\* stale, kept_same (the stored tokens past their expires_at; the other
\* sessions are stored afterwards as they were before, in their order).
SmCall(op, token, value, pre, post) ==
    [op |-> op, token |-> token, value |-> value, user_data |-> NoneV,
     removed |-> SessionTokens(pre) \ SessionTokens(post),
     had |-> op = "get" /\ token \in SessionTokens(pre),
     expired |-> op = "get" /\ token \in StaleTokens(pre, now),
     was_gone |-> op = "get" /\ token \in smh.gone,
     read_lately |-> /\ op = "get"
                     /\ token \in SessionTokens(pre)
                     /\ now - SessionOf(pre, token).last_accessed < pre.session_ttl,
     full |-> op = "create" /\ Len(pre.sessions) >= pre.max_sessions,
     victim |-> IF op = "create" /\ smh.recency # <<>> THEN Head(smh.recency) ELSE NoneInt,
     stale |-> IF op = "cleanup" THEN StaleTokens(pre, now) ELSE {},
     kept_same |-> op = "cleanup" =>
                     SelectSeq(pre.sessions, LAMBDA e : e.k \notin StaleTokens(pre, now))
                       = post.sessions]

\* The history after a call that left the store as post.
Removed(h, pre, post) ==
    [h EXCEPT !.gone = @ \cup (SessionTokens(pre) \ SessionTokens(post)),
              !.recency = SelectSeq(@, LAMBDA k : k \in SessionTokens(post))]

SmInit ==
    /\ now = 0
    /\ CacheIdle /\ SwIdle /\ TbIdle /\ MgrIdle /\ AdIdle /\ MtIdle /\ ChIdle /\ CpIdle /\ LkIdle
    /\ sm \in {SessionManager(m, t) : m \in 0..MaxSessions, t \in 1..MaxSessionTtl}
    /\ smh = [issued |-> 0, recency |-> <<>>, gone |-> {}, calls |-> 0]
    /\ smret = SmCall("init", NoneInt, NoneV, sm, sm)

SmTick ==
    /\ now < MaxSessionTime
    /\ now' = now + 1
    /\ smh' = [smh EXCEPT !.gone = @ \cup StaleTokens(sm, now')]
    /\ smret' = SmCall("tick", NoneInt, NoneV, sm, sm)
    /\ UNCHANGED sm
    /\ UNCHANGED notSm

SmCreateSession(user_id, user_data) ==
    /\ smh.calls < MaxSessionCalls
    /\ smh.issued < MaxTokens
    /\ LET r == SM_create_session(sm, smh.issued + 1, user_id, user_data, now)
           h == Removed(smh, sm, r.self)
       IN /\ sm' = r.self
          /\ smret' = [SmCall("create", r.token, r.token, sm, r.self) EXCEPT
                         !.user_data = user_data]
          /\ smh' = IF r.error = NoneV
                    THEN [h EXCEPT !.issued = @ + 1, !.calls = @ + 1,
                                   !.recency = Touch(@, r.token)]
                    ELSE [h EXCEPT !.issued = @ + 1, !.calls = @ + 1]
    /\ UNCHANGED now
    /\ UNCHANGED notSm

SmGetSession(token) ==
    /\ smh.calls < MaxSessionCalls
    /\ LET r == SM_get_session(sm, token, now)
           h == Removed(smh, sm, r.self)
       IN /\ sm' = r.self
          /\ smret' = SmCall("get", token, r.value, sm, r.self)
          /\ smh' = IF r.value # NoneV
                    THEN [h EXCEPT !.calls = @ + 1, !.recency = Touch(@, token)]
                    ELSE [h EXCEPT !.calls = @ + 1]
    /\ UNCHANGED now
    /\ UNCHANGED notSm

SmDeleteSession(token) ==
    /\ smh.calls < MaxSessionCalls
    /\ LET r == SM_delete_session(sm, token)
       IN /\ sm' = r.self
          /\ smret' = SmCall("delete", token, r.value, sm, r.self)
          /\ smh' = [Removed(smh, sm, r.self) EXCEPT !.calls = @ + 1]
    /\ UNCHANGED now
    /\ UNCHANGED notSm

\* One round of cleanup_worker, or a direct call.
SmCleanupExpiredSessions ==
    /\ smh.calls < MaxSessionCalls
    /\ LET r == SM_cleanup_expired_sessions(sm, now)
       IN /\ sm' = r.self
          /\ smret' = SmCall("cleanup", NoneInt, r.value, sm, r.self)
          /\ smh' = [Removed(smh, sm, r.self) EXCEPT !.calls = @ + 1]
    /\ UNCHANGED now
    /\ UNCHANGED notSm

SmExtendSession(token, additional_seconds) ==
    /\ smh.calls < MaxSessionCalls
    /\ LET r == SM_extend_session(sm, token, additional_seconds)
       IN /\ sm' = r.self
          /\ smret' = SmCall("extend", token, r.value, sm, r.self)
          /\ smh' = IF r.value
                    THEN [smh EXCEPT !.calls = @ + 1, !.recency = Touch(@, token)]
                    ELSE [smh EXCEPT !.calls = @ + 1]
    /\ UNCHANGED now
    /\ UNCHANGED notSm

SmNext ==
    \/ SmTick
    \/ SmCreateSession(UserId(smh.issued + 1), UserData(smh.issued + 1))
    \/ \E token \in Tokens : SmGetSession(token)
    \/ \E token \in Tokens : SmDeleteSession(token)
    \/ SmCleanupExpiredSessions
    \/ \E token \in Tokens, additional_seconds \in 1..MaxAdditionalSeconds :
          SmExtendSession(token, additional_seconds)

SpecSm == SmInit /\ [][SmNext]_vars

\* ------------------------------------------------------- one ConnectionPool
\* Worker threads call get_connection as a context manager and a further
\* thread calls close_all.  get_connection takes _lock only around the
\* creation branch and close_all takes no lock at all, so their steps are the
\* places where threads can be switched: th holds each thread's position (pc),
\* the connection it holds and the value of _created_connections it has
\* read for a += 1 or -= 1 that it has not yet stored.  ph counts the calls
\* begun, lists the acquisitions in order with where each came from, and
\* holds the connections that were closed.
Workers == {"w1", "w2"}
Closer == "main"
Threads == Workers \cup {Closer}

Resting == [pc |-> "idle", connection |-> NoConnection, seen |-> 0]

CheckedOut == {w \in Workers : th[w].pc = "using"}

CpInit ==
    /\ now = 0
    /\ CacheIdle /\ SwIdle /\ TbIdle /\ MgrIdle /\ AdIdle /\ MtIdle /\ ChIdle /\ SmIdle /\ LkIdle
    /\ cp \in {ConnectionPool(m) : m \in 1..MaxPoolSize}
    /\ th = [t \in Threads |-> Resting]
    /\ ph = [calls |-> 0, closes |-> 0, acquired |-> <<>>, closed |-> {}]

\* get_connection up to the test of line 56: if not self._pool.empty().
CpGetConnection(w) ==
    /\ th[w].pc = "idle"
    /\ ph.calls < MaxPoolCalls
    /\ th' = [th EXCEPT ![w].pc = IF ~CP_pool_empty(cp) THEN "get" ELSE "lock"]
    /\ ph' = [ph EXCEPT !.calls = @ + 1]
    /\ UNCHANGED cp
    /\ UNCHANGED notCp

\* self._pool.get(timeout=timeout) of line 57, or of line 64 under _lock,
\* when the queue has a connection.
CpPoolGet(w) ==
    /\ th[w].pc \in {"get", "get_locked"}
    /\ ~CP_pool_empty(cp)
    /\ cp' = [cp EXCEPT !.pool = Tail(@),
                        !.lock = IF th[w].pc = "get_locked" THEN NoThread ELSE @]
    /\ th' = [th EXCEPT ![w].pc = "using", ![w].connection = Head(cp.pool)]
    /\ ph' = [ph EXCEPT !.acquired =
                 Append(@, [source |-> "pool", connection |-> Head(cp.pool)])]
    /\ UNCHANGED notCp

\* The same get when the queue stays empty for the timeout: queue.Empty is
\* raised, the with statement gives _lock back, and the finally clause finds
\* connection None.
CpTimeout(w) ==
    /\ th[w].pc \in {"get", "get_locked"}
    /\ CP_pool_empty(cp)
    /\ cp' = [cp EXCEPT !.lock = IF th[w].pc = "get_locked" THEN NoThread ELSE @]
    /\ th' = [th EXCEPT ![w] = Resting]
    /\ UNCHANGED ph
    /\ UNCHANGED notCp

\* with self._lock: and the test of line 61.  Under the limit the thread
\* goes into _create_connection, down to the read of _created_connections
\* for the += 1 of line 47; at the limit it goes to the get of line 64.
CpLock(w) ==
    /\ th[w].pc = "lock"
    /\ cp.lock = NoThread
    /\ IF cp.created_connections < cp.max_connections
       THEN /\ cp' = [cp EXCEPT !.lock = w, !.connects = @ + 1]
            /\ th' = [th EXCEPT ![w] = [pc |-> "incr",
                                        connection |-> cp.connects + 1,
                                        seen |-> cp.created_connections]]
       ELSE /\ cp' = [cp EXCEPT !.lock = w]
            /\ th' = [th EXCEPT ![w].pc = "get_locked"]
    /\ UNCHANGED ph
    /\ UNCHANGED notCp

\* The store of the += 1 of line 47, the return, the end of the with block
\* and the yield of line 66.
CpIncrement(w) ==
    /\ th[w].pc = "incr"
    /\ cp' = [cp EXCEPT !.created_connections = th[w].seen + 1, !.lock = NoThread]
    /\ th' = [th EXCEPT ![w].pc = "using", ![w].seen = 0]
    /\ ph' = [ph EXCEPT !.acquired =
                 Append(@, [source |-> "created", connection |-> th[w].connection])]
    /\ UNCHANGED notCp

\* A release that puts the connection back whatever SELECT 1 says.
CpRelease_PutsBrokenBack(w, valid) ==
    /\ th[w].pc = "using"
    /\ ~CP_pool_full(cp)
    /\ cp' = [cp EXCEPT !.pool = Append(@, th[w].connection)]
    /\ th' = [th EXCEPT ![w] = Resting]
    /\ ph' = IF valid THEN ph ELSE [ph EXCEPT !.closed = @ \cup {th[w].connection}]
    /\ UNCHANGED notCp

\* The end of the caller's with block (left normally or by an exception
\* thrown into the generator at the yield), lines 68-80: a connection that
\* answers SELECT 1 is put back (the put waits while the queue is full), one
\* that does not is closed.
CpRelease(w, valid) ==
    /\ th[w].pc = "using"
    /\ IF valid
       THEN /\ ~CP_pool_full(cp)
            /\ cp' = [cp EXCEPT !.pool = Append(@, th[w].connection)]
            /\ th' = [th EXCEPT ![w] = Resting]
            /\ ph' = ph
       ELSE /\ cp' = cp
            /\ th' = [th EXCEPT ![w].pc = "relock", ![w].connection = NoConnection]
            /\ ph' = [ph EXCEPT !.closed = @ \cup {th[w].connection}]
    /\ UNCHANGED notCp

\* with self._lock: of line 81 and the read of the -= 1 of line 82.
CpRelock(w) ==
    /\ th[w].pc = "relock"
    /\ cp.lock = NoThread
    /\ cp' = [cp EXCEPT !.lock = w]
    /\ th' = [th EXCEPT ![w].pc = "decr", ![w].seen = cp.created_connections]
    /\ UNCHANGED ph
    /\ UNCHANGED notCp

\* The store of the -= 1 of line 82 and the end of the with block.
CpDecrement(w) ==
    /\ th[w].pc = "decr"
    /\ cp' = [cp EXCEPT !.created_connections = th[w].seen - 1, !.lock = NoThread]
    /\ th' = [th EXCEPT ![w] = Resting]
    /\ UNCHANGED ph
    /\ UNCHANGED notCp

\* close_all is called.
CpCloseAll ==
    /\ th[Closer].pc = "idle"
    /\ ph.closes < MaxCloses
    /\ th' = [th EXCEPT ![Closer].pc = "drain"]
    /\ ph' = [ph EXCEPT !.closes = @ + 1]
    /\ UNCHANGED cp
    /\ UNCHANGED notCp

\* One turn of while not self._pool.empty(): a connection is taken with
\* get_nowait and closed, or the loop ends.
CpDrain ==
    /\ th[Closer].pc = "drain"
    /\ IF ~CP_pool_empty(cp)
       THEN /\ cp' = [cp EXCEPT !.pool = Tail(@)]
            /\ th' = th
            /\ ph' = [ph EXCEPT !.closed = @ \cup {Head(cp.pool)}]
       ELSE /\ cp' = cp
            /\ th' = [th EXCEPT ![Closer].pc = "reset"]
            /\ ph' = ph
    /\ UNCHANGED notCp

\* self._created_connections = 0 of line 92, stored without _lock.
CpReset ==
    /\ th[Closer].pc = "reset"
    /\ cp' = [cp EXCEPT !.created_connections = 0]
    /\ th' = [th EXCEPT ![Closer] = Resting]
    /\ UNCHANGED ph
    /\ UNCHANGED notCp

CpNext ==
    \/ \E w \in Workers : CpGetConnection(w)
    \/ \E w \in Workers : CpPoolGet(w)
    \/ \E w \in Workers : CpTimeout(w)
    \/ \E w \in Workers : CpLock(w)
    \/ \E w \in Workers : CpIncrement(w)
    \/ \E w \in Workers, valid \in BOOLEAN : CpRelease(w, valid)
    \/ \E w \in Workers : CpRelock(w)
    \/ \E w \in Workers : CpDecrement(w)
    \/ CpCloseAll
    \/ CpDrain
    \/ CpReset

SpecPool == CpInit /\ [][CpNext]_vars

\* Threads run: a thread that can take its next step inside get_connection
\* or close_all takes it, a get that waits on an empty queue runs into its
\* timeout, and a holder leaves its with block.  Nothing makes a thread call
\* get_connection or close_all.
CpFair ==
    /\ \A w \in Workers :
          /\ WF_vars(CpPoolGet(w))
          /\ WF_vars(CpTimeout(w))
          /\ WF_vars(CpLock(w))
          /\ WF_vars(CpIncrement(w))
          /\ WF_vars(\E valid \in BOOLEAN : CpRelease(w, valid))
          /\ WF_vars(CpRelock(w))
          /\ WF_vars(CpDecrement(w))
    /\ WF_vars(CpDrain)
    /\ WF_vars(CpReset)

SpecPoolLive == CpInit /\ [][CpNext]_vars /\ CpFair

\* C1: an LRUCache built with max_size >= 1 never holds more than max_size
\* entries between calls, whatever the interleaving of get, set and
\* invalidate.
C1_SizeWithinCapacity ==
    kind = "lru" => Len(lru.cache) <= lru.max_size

\* A set of a new key into a full cache has just returned, and the cache is
\* full again.
C1_Witness ==
    /\ kind = "lru"
    /\ ret.op = "set" /\ ~ret.had /\ ret.full
    /\ Len(lru.cache) = lru.max_size

\* C2: a set of a key that is not stored, made while the cache holds
\* max_size entries, removes exactly one entry, the stored key whose last
\* successful get or set is the oldest, and stores the new key.
C2_EvictsLeastRecentlyUsed ==
    (kind = "lru" /\ ret.op = "set" /\ ~ret.had /\ ret.full) =>
        /\ ret.removed = {ret.victim}
        /\ ret.key \in OdKeys(lru.cache)

\* An overflowing set into a cache of two entries has evicted a key that was
\* not the last one to be touched.
C2_Witness ==
    /\ kind = "lru" /\ lru.max_size = 2
    /\ ret.op = "set" /\ ~ret.had /\ ret.full
    /\ ret.removed = {ret.victim}
    /\ ret.victim # NoneKey

\* C3: a get made when more than the entry's time-to-live has passed since
\* its last set returns None and leaves the key absent, swept or not (for an
\* LRUCache with ttl > 0 and for a TTLCache).
C3_ExpiredEntryIsAMiss ==
    (ret.op = "get" /\ ret.stale /\ (kind = "ttl" \/ lru.ttl > 0)) =>
        /\ ret.value = NoneV
        /\ ret.key \notin KeysOf(Cache)

\* A get has found an entry that was past its time-to-live and still stored.
C3_Witness ==
    /\ ret.op = "get" /\ ret.stale /\ ret.had
    /\ kind = "ttl" \/ lru.ttl > 0

\* C7: a SlidingWindowRateLimiter built with max_requests >= 1 never keeps
\* more than max_requests timestamps, and when is_allowed has returned true
\* every kept timestamp is at most window_seconds older than the call.
C7_WindowBounded ==
    /\ Len(sw.requests) <= sw.max_requests
    /\ (swret.op = "is_allowed" /\ swret.allowed) =>
          \A i \in 1..Len(sw.requests) :
              /\ sw.requests[i] <= swret.t
              /\ swret.t - sw.requests[i] <= sw.window_seconds

\* An admitting call has dropped an old timestamp and the window is full.
C7_Witness ==
    /\ swret.op = "is_allowed" /\ swret.allowed
    /\ Len(sw.requests) = sw.max_requests
    /\ sw.max_requests >= 2
    /\ swret.t - sw.requests[1] = sw.window_seconds

\* C8: is_allowed returns a wait of 0 with allowed = true and a wait
\* strictly greater than 0 with allowed = false.
C8_DeniedWaitIsPositive ==
    swret.op = "is_allowed" =>
        /\ swret.allowed => swret.wait = 0
        /\ ~swret.allowed => swret.wait > 0

\* C9: a TokenBucketRateLimiter built with capacity >= 1 and
\* refill_rate > 0 holds between 0 and capacity tokens in every state.
C9_TokensWithinBucket ==
    /\ 0 <= tb.tokens
    /\ tb.tokens <= tb.capacity * TokenScale

\* A consume has refilled the bucket, cut the refill at the capacity, and
\* taken every token.
C9_Witness ==
    /\ tbret.op = "consume" /\ tbret.capped /\ tbret.ok
    /\ tb.tokens = 0

\* C10: over the interval from markT to now the tokens granted are at most
\* capacity + refill_rate * (now - markT).
C10_TokensConserved ==
    granted * TokenScale <= tb.capacity * TokenScale + tb.refill_rate * (now - markT)

\* capacity = 10 and refill_rate = 1: ten tokens were taken, ten seconds
\* passed, a consume(10) succeeded and the consume right after it failed.
C10_Witness ==
    /\ tb.capacity = GenerateCapacity /\ tb.refill_rate = TokenScale
    /\ markT = 0 /\ now = 10
    /\ granted = 2 * GenerateCapacity
    /\ tbret.op = "consume" /\ ~tbret.ok /\ tbret.n = 1

\* C4: on every tier of the CacheManager, a get of a key made when more
\* than T seconds have passed since its last set(key, v, tier, ttl=T), T > 0,
\* returns None.
C4_PerCallTtlGoverns ==
    (mret.op = "get" /\ mret.stale) => mret.value = NoneV

\* C5: a call of a decorated function made after an identical call, within
\* the ttl and with no invalidation and no set of its key in between, does
\* not call the function again and returns the result of the first call.
C5_SecondCallIsServedFromCache ==
    (mret.op = "call" /\ mret.fresh) =>
        /\ ~mret.called
        /\ mret.value = mret.first

\* C6: an invalidate given a key (here a non-empty one) removes at most
\* the entry stored under exactly that key, in the tier it names or in
\* every tier; every other entry stays.
C6_InvalidateKeyRemovesOnlyThatKey ==
    (mret.op = "invalidate" /\ mret.key # NoneKey /\ Len(mret.key) > 0) =>
        \A ck \in mret.removed : ck[2] = mret.key

\* C11: when _adjust_rate runs with at least one recorded response, an error
\* rate below 1%, a mean response time below 0.5 s and
\* current_rate < max_rate, the current_rate afterwards is strictly greater
\* than before and not above max_rate.
C11_GoodMetricsRaiseTheRate ==
    (adret.op = "adjust" /\ adret.ran /\ adret.good /\ adret.before < ad.max_rate) =>
        /\ ad.current_rate > adret.before
        /\ ad.current_rate <= ad.max_rate

\* The admitted calls of a user in the seconds up to and including its
\* i-th admitted call.
AdmittedWithin(user_id, i, seconds) ==
    {j \in 1..i : admitted[user_id][j] >= admitted[user_id][i] - seconds}

\* The two windows kept for a user_id, or nothing.
WindowsOf(self, user_id) ==
    IF user_id \in DOMAIN self.user_limiters THEN self.user_limiters[user_id] ELSE <<>>

\* C12: for each user_id at most requests_per_minute(tier) calls are
\* admitted in any 60 s and at most requests_per_hour(tier) in any 3600 s,
\* the tier and the budgets of its windows being fixed by the user_id alone;
\* a call is admitted exactly when both windows of that user have room; and
\* a call made under another user_id leaves this user's windows as they were.
C12_TwoWindowsPerUser ==
    /\ [](\A u \in DOMAIN admitted :
            LET limits == Tiers[MT_get_user_tier(u)]
            IN /\ \A i \in 1..Len(admitted[u]) :
                     /\ Cardinality(AdmittedWithin(u, i, MinuteSeconds))
                           <= limits.requests_per_minute
                     /\ Cardinality(AdmittedWithin(u, i, HourSeconds))
                           <= limits.requests_per_hour
               /\ u \in DOMAIN mt.user_limiters =>
                     /\ mt.user_limiters[u].minute.max_requests = limits.requests_per_minute
                     /\ mt.user_limiters[u].hour.max_requests = limits.requests_per_hour)
    /\ [](mtret.op = "is_allowed" =>
            (mtret.allowed <=> (mtret.minute_room /\ mtret.hour_room)))
    /\ [][\A u \in UserIds :
            (mtret'.op = "is_allowed" /\ mtret'.user_id # u) =>
                WindowsOf(mt', u) = WindowsOf(mt, u)]_vars

\* A free user has its hourly budget admitted and is refused by the hourly
\* window, more than a minute after its last admitted call, while the other
\* user has been admitted too.
C12_Witness ==
    /\ mtret.op = "is_allowed" /\ ~mtret.allowed
    /\ mtret.user_id = <<"u">>
    /\ mtret.message.text = "Hourly limit reached"
    /\ mtret.minute_room /\ ~mtret.hour_room
    /\ Len(admitted[<<"u">>]) = FreePerHour
    /\ \E v \in DOMAIN admitted : v # <<"u">> /\ Len(admitted[v]) >= 1

\* C13: check_rate_limit asks the identity-tier limiter, then the
\* endpoint/IP limiter, then the adaptive limiter; at the first rejection it
\* returns that limiter's message and asks no later limiter, whose state is
\* as it was when the call began; it returns allowed only when all three
\* have admitted the request.
C13_FirstRejectionEndsTheCheck ==
    LET order == <<"user", "api", "adaptive">>
        k == Len(ch.asked)
    IN /\ k <= 3
       /\ \A i \in 1..k : ch.asked[i].limiter = order[i]
       /\ \A i \in 1..(k - 1) : ch.asked[i].allowed
       /\ (ch.pc = "done" /\ ch.n > 0) =>
             /\ k >= 1
             /\ ch.allowed <=> (k = 3 /\ \A i \in 1..3 : ch.asked[i].allowed)
             /\ ~ch.allowed =>
                   /\ ~ch.asked[k].allowed
                   /\ ch.message = ch.asked[k].message
                   /\ k < 2 => api = ch.before.api
                   /\ k < 3 => ad = ch.before.ad

\* The endpoint's bucket is empty: a call admitted by the identity tier was
\* rejected by the endpoint limiter and the adaptive limiter was not asked.
C13_Witness ==
    /\ ch.pc = "done" /\ ~ch.allowed
    /\ Len(ch.asked) = 2
    /\ ch.message.text = "Endpoint rate limit exceeded"
    /\ ad = ch.before.ad /\ api # ch.before.api

\* C14: get_session of a token whose session is stored and past its
\* expires_at returns None, as it does for a token that is not stored (never
\* issued, deleted, evicted or swept), and the token is not stored afterwards.
C14_ExpiredSessionIsAbsent ==
    (smret.op = "get" /\ (smret.expired \/ ~smret.had)) =>
        /\ smret.value = NoneV
        /\ smret.token \notin SessionTokens(sm)

\* A get has found a stored session past its expires_at and has removed it.
C14_Witness ==
    /\ smret.op = "get" /\ smret.expired /\ smret.had
    /\ smret.value = NoneV
    /\ smret.removed = {smret.token}

\* C15: once a token has been expired (now > expires_at) or removed, no
\* get_session of it returns its payload.
C15_NoWayBackToActive ==
    (smret.op = "get" /\ smret.was_gone) => smret.value = NoneV

\* C16: a successful get_session leaves last_accessed = now and expires_at at
\* least session_ttl ahead of now, and a get_session of a stored session that
\* was created or read less than session_ttl ago is successful.
C16_GetSlidesTheExpiry ==
    /\ (smret.op = "get" /\ smret.value # NoneV) =>
          /\ SessionOf(sm, smret.token).last_accessed = now
          /\ SessionOf(sm, smret.token).expires_at >= now + sm.session_ttl
    /\ (smret.op = "get" /\ smret.read_lately) => smret.value # NoneV

\* C17: with max_sessions >= 1 the store never holds more than max_sessions
\* sessions; a create_session made while it holds max_sessions removes
\* exactly the session whose last create, successful get or extend is the
\* oldest; and get_session of the returned token gives the payload supplied.
C17_CreateEvictsLeastRecentlyUsed ==
    sm.max_sessions >= 1 =>
        /\ Len(sm.sessions) <= sm.max_sessions
        /\ (smret.op = "create" /\ smret.full) => smret.removed = {smret.victim}
        /\ smret.op = "create" =>
              /\ smret.token \in SessionTokens(sm)
              /\ SM_get_session(sm, smret.token, now).value = smret.user_data

\* A create into a full store of two has evicted the second token, the
\* first one having been used since.
C17_Witness ==
    /\ sm.max_sessions = 2
    /\ smret.op = "create" /\ smret.full
    /\ smret.token = 3 /\ smret.removed = {2}
    /\ SessionTokens(sm) = {1, 3}

\* C18: cleanup_expired_sessions removes exactly the stored sessions with
\* now > expires_at and returns their number; the other sessions stay as
\* they were; right after it get_active_sessions_count is the number of
\* sessions that are not expired.
C18_CleanupRemovesTheExpired ==
    smret.op = "cleanup" =>
        /\ smret.removed = smret.stale
        /\ smret.value = Cardinality(smret.stale)
        /\ smret.kept_same
        /\ StaleTokens(sm, now) = {}
        /\ SM_get_active_sessions_count(sm) = Cardinality(SessionTokens(sm))

\* Two sessions with a ttl of 1 s were swept after more than 1 s: the sweep
\* returned 2 and no session is counted.
C18_Witness ==
    /\ smret.op = "cleanup" /\ sm.session_ttl = 1
    /\ smret.value = 2 /\ smret.removed = {1, 2}
    /\ SM_get_active_sessions_count(sm) = 0

\* C19: the number of connections checked out of a ConnectionPool at one
\* time (threads inside the with block of get_connection) is never more than
\* max_connections, whatever the interleaving of get_connection calls,
\* releases and close_all calls.
C19_CheckedOutWithinMax ==
    Cardinality(CheckedOut) <= cp.max_connections

\* C20: after construction min(3, max_connections) connections wait in the
\* pool, and, as long as close_all has not been called, the first
\* min(3, max_connections) acquisitions are served from the pool, not by a
\* newly created connection.
C20_PrecreatedConnectionsServeFirst ==
    /\ (ph.calls = 0 /\ ph.closes = 0) =>
           Len(cp.pool) = Min(Precreated, cp.max_connections)
    /\ ph.closes = 0 =>
           \A i \in 1..Min(Len(ph.acquired), Min(Precreated, cp.max_connections)) :
               ph.acquired[i].source = "pool"

\* The connections handed out so far, those held inside a with block, those
\* in the queue, and the threads that are in the middle of a step of
\* get_connection that changes the count.
HandedOut == {ph.acquired[i].connection : i \in 1..Len(ph.acquired)}
Held == {th[w].connection : w \in CheckedOut}
Pooled == {cp.pool[i] : i \in 1..Len(cp.pool)}
Counting == {w \in Workers : th[w].pc \in {"incr", "relock", "decr"}}

C21_EveryCallerIsServed ==
    \A w \in Workers :
        (th[w].pc \in {"get", "lock"}) ~> (th[w].pc = "using" \/ ph.closes > 0)

\* C23: a SessionManager that was constructed has a capacity of at least
\* one, so that no create_session made on it raises for want of capacity:
\* every create_session returns a token.
C23_NoInstanceWithoutCapacity ==
    smret.op = "create" => (sm.max_sessions >= 1 /\ smret.value # NoneInt)

\* C24: the number of is_allowed calls of an AdaptiveRateLimiter that
\* return true at one instant (so within every interval of window_seconds
\* that holds the instant) is at most the largest current_rate in force at
\* that instant, whatever rate adjustments are made in between.
C24_AdmissionsWithinTheRate ==
    adret.admits <= adret.peak

\* C25: a round of _adjust_rate before which no record_response was made
\* since the round before leaves current_rate as it was.
C25_UnfedRoundKeepsTheRate ==
    (adret.op = "adjust" /\ adret.unfed) => ad.current_rate = adret.before

\* C26: only the admitted calls of a user take up room in its windows: at
\* every moment the timestamps that count in the minute window and in the
\* hour window of a user are as many as the calls of that user admitted
\* within the window, so that a denied call has consumed nothing.
C26_DeniedCallConsumesNothing ==
    \A user_id \in DOMAIN admitted \cap DOMAIN mt.user_limiters :
        \A which \in {"minute", "hour"} :
            LET limiter == mt.user_limiters[user_id][which]
            IN Cardinality(InWindow(limiter, now))
                  = Cardinality({j \in 1..Len(admitted[user_id]) :
                                    admitted[user_id][j] >= now - limiter.window_seconds})

\* C29: get_remaining_quota of a user reports, for the minute and for the
\* hour, the limit of the user's tier less the number of the user's calls
\* admitted within the trailing window at the time of the call, never less
\* than 0 (the unlimited tier stays unlimited), and leaves the limiter as it
\* was.
C29_QuotaIsLimitLessAdmitted ==
    mtret.op = "get_remaining_quota" =>
        LET limits == mt.tiers[MT_get_user_tier(mtret.user_id)]
            Used(seconds) == Cardinality({j \in 1..Len(admitted[mtret.user_id]) :
                                             admitted[mtret.user_id][j] >= now - seconds})
            Left(limit, n) == IF limit = Infinity THEN Infinity ELSE Max(0, limit - n)
        IN /\ mtret.quota.minute_remaining
                 = Left(limits.requests_per_minute, Used(MinuteSeconds))
           /\ mtret.quota.hour_remaining
                 = Left(limits.requests_per_hour, Used(HourSeconds))
           /\ mtret.untouched

\* Whether key is a default key of a call of the function that f names.
KeyOf(f, key) ==
    \E g \in Decorated : g.module = f.module /\ g.name = f.name /\ CacheKey(g) = key

\* C27: a call of a decorated function that is answered from the cache is
\* answered with what a call of that function with the same positional and
\* keyword arguments stored: two calls with different arguments never share
\* a default key.
C27_DifferentArgumentsDifferentKeys ==
    (mret.op = "call" /\ ~mret.called /\ mret.key \in DOMAIN memo) =>
        /\ memo[mret.key].f.args = mret.f.args
        /\ memo[mret.key].f.kwargs = mret.f.kwargs

\* C28: wrapper.invalidate_cache() of a decorated function removes only
\* entries under keys of that function: every other entry of the tier, set
\* directly or by another function, stays.
C28_InvalidateCacheRemovesOwnEntriesOnly ==
    mret.op = "invalidate_cache" =>
        \A e \in mret.removed : KeyOf(mret.f, e[2])

\* ------------------------------------------------------------ the locks
\* What the calls of the structures do with the locks, without the data.
\* Every structure makes its own lock in __init__; a lock is named by the
\* structure that owns it.  A call is a record of the method (name) and of
\* what it is called on or with (on); its steps are the acquire and release
\* of the "with self._lock:" blocks it runs through, in order, those of the
\* methods it calls included.  lk[t] is the call the thread t is in, the
\* next step of it and the locks t holds, the last taken last.

\* CacheManager: get and set go to self.caches[cache_type] without the
\* manager's lock; invalidate calls cache.invalidate under it, for one
\* cache or, without a cache_type, for every cache of self.caches.  A cache
\* method takes the lock of the cache (of l1_cache for "multi").
CM_locking(call) ==
    LET order == <<"default", "short", "long", "permanent", "multi">>
        cache(c) == << <<"acquire", <<"caches", c>>>>, <<"release", <<"caches", c>>>> >>
        all == [i \in 1..(2 * Len(order)) |-> cache(order[(i + 1) \div 2])[2 - (i % 2)]]
    IN CASE call.name \in {"CacheManager.get", "CacheManager.set"} -> cache(call.on)
         [] call.name = "CacheManager.invalidate" ->
              << <<"acquire", <<"CacheManager">>>> >>
              \o (IF call.on = "None" THEN all ELSE cache(call.on))
              \o << <<"release", <<"CacheManager">>>> >>

\* The rate limiters: SlidingWindowRateLimiter.is_allowed and
\* TokenBucketRateLimiter.consume take their own lock;
\* MultiTierRateLimiter.is_allowed calls the minute limiter of the user
\* and, when that admits (on[2]), the hour limiter, under its own lock;
\* get_remaining_quota reads under its own lock only.
RL_locking(call) ==
    LET own(l) == << <<"acquire", l>>, <<"release", l>> >>
        user_id == call.on[1]
    IN CASE call.name = "SlidingWindowRateLimiter.is_allowed" -> own(call.on)
         [] call.name = "TokenBucketRateLimiter.consume" -> own(<<"TokenBucketRateLimiter">>)
         [] call.name = "MultiTierRateLimiter.get_remaining_quota" ->
              own(<<"MultiTierRateLimiter">>)
         [] call.name = "MultiTierRateLimiter.is_allowed" ->
              << <<"acquire", <<"MultiTierRateLimiter">>>> >>
              \o own(<<"user_limiters", user_id, "minute">>)
              \o (IF call.on[2] THEN own(<<"user_limiters", user_id, "hour">>) ELSE <<>>)
              \o << <<"release", <<"MultiTierRateLimiter">>>> >>

\* SessionManager: every method runs under the manager's lock.
SM_locking(call) ==
    << <<"acquire", <<"SessionManager">>>>, <<"release", <<"SessionManager">>>> >>

\* ConnectionPool.get_connection: the lock around the creation or the wait
\* when the pool is empty, and the lock around the decrement when the
\* connection fails the probe (on).  The mutex inside queue.Queue is not a
\* lock of a structure here.
CP_locking(call) ==
    LET own == << <<"acquire", <<"ConnectionPool">>>>, <<"release", <<"ConnectionPool">>>> >>
    IN own \o (IF call.on THEN <<>> ELSE own)

LockCalls ==
    {[name |-> n, on |-> c] :
        n \in {"CacheManager.get", "CacheManager.set"}, c \in DOMAIN CacheManager}
    \cup {[name |-> "CacheManager.invalidate", on |-> c] :
              c \in DOMAIN CacheManager \cup {"None"}}
    \cup {[name |-> "SlidingWindowRateLimiter.is_allowed", on |-> <<"user_limiters", u, w>>] :
              u \in {<<"u">>, <<"admin">>}, w \in {"minute", "hour"}}
    \cup {[name |-> "TokenBucketRateLimiter.consume", on |-> 1]}
    \cup {[name |-> n, on |-> <<u, a>>] :
              n \in {"MultiTierRateLimiter.is_allowed",
                     "MultiTierRateLimiter.get_remaining_quota"},
              u \in {<<"u">>, <<"admin">>}, a \in BOOLEAN}
    \cup {[name |-> n, on |-> 1] :
              n \in {"SessionManager.create_session", "SessionManager.get_session",
                     "SessionManager.delete_session",
                     "SessionManager.cleanup_expired_sessions"}}
    \cup {[name |-> "ConnectionPool.get_connection", on |-> valid] : valid \in BOOLEAN}

LockSteps(call) ==
    CASE call.name \in {"CacheManager.get", "CacheManager.set", "CacheManager.invalidate"} ->
           CM_locking(call)
      [] call.name \in {"SlidingWindowRateLimiter.is_allowed",
                        "TokenBucketRateLimiter.consume",
                        "MultiTierRateLimiter.is_allowed",
                        "MultiTierRateLimiter.get_remaining_quota"} -> RL_locking(call)
      [] call.name = "ConnectionPool.get_connection" -> CP_locking(call)
      [] OTHER -> SM_locking(call)

LkInit ==
    /\ now = 0
    /\ CacheIdle /\ SwIdle /\ TbIdle /\ MgrIdle /\ AdIdle /\ MtIdle /\ ChIdle /\ SmIdle
    /\ CpIdle
    /\ lk = [t \in Workers |-> [steps |-> <<>>, held |-> <<>>]]

\* The thread t, in no call, makes one.
LkCall(t, call) ==
    /\ lk[t].steps = <<>>
    /\ lk' = [lk EXCEPT ![t].steps = LockSteps(call)]
    /\ UNCHANGED notLk

\* The thread t enters a "with self._lock:" block: when no other thread
\* holds the lock.
LkAcquire(t) ==
    /\ lk[t].steps # <<>>
    /\ Head(lk[t].steps)[1] = "acquire"
    /\ LET lock == Head(lk[t].steps)[2]
       IN /\ \A u \in Workers \ {t} :
                \A i \in 1..Len(lk[u].held) : lk[u].held[i] # lock
          /\ lk' = [lk EXCEPT ![t].steps = Tail(@), ![t].held = Append(@, lock)]
    /\ UNCHANGED notLk

\* The thread t leaves the block it entered last.
LkRelease(t) ==
    /\ lk[t].steps # <<>>
    /\ Head(lk[t].steps)[1] = "release"
    /\ lk' = [lk EXCEPT ![t].steps = Tail(@),
                         ![t].held = SubSeq(@, 1, Len(@) - 1)]
    /\ UNCHANGED notLk

LkNext ==
    \/ \E t \in Workers, call \in LockCalls : LkCall(t, call)
    \/ \E t \in Workers : LkAcquire(t)
    \/ \E t \in Workers : LkRelease(t)

SpecLocks == LkInit /\ [][LkNext]_vars

\* C30: a thread holds at most one lock of the structures at any time: it
\* never calls into a structure with a lock while it holds the lock of
\* another.
C30_OneLockPerThread ==
    \A t \in DOMAIN lk : Len(lk[t].held) <= 1

====
